---- MODULE Spec2Model ----
(***************************************************************************)
(* A model of the easyEdaDownloader conversion core (src/src/popup.js):     *)
(* EasyEDA CAD records are parsed, converted to KiCad units and exported    *)
(* as KiCad symbol / footprint text, and OBJ meshes are converted to VRML.  *)
(*                                                                         *)
(* Representation.                                                         *)
(*  - A shape line is modelled by the sequence line.split("~") of its      *)
(*    fields; every field is a string, and a missing field reads as        *)
(*    Undefined, as an out-of-range array index does in JavaScript.        *)
(*  - Number(), String.split(" ") and JSON.parse are tables over the       *)
(*    field strings that occur in the inputs.                              *)
(*  - Lengths in millimetres are integers in micrometres: one EasyEDA      *)
(*    unit is 0.254 mm = 254 um.  toFixed(2) yields hundredths of a mm.    *)
(***************************************************************************)
EXTENDS Integers, Sequences, FiniteSets, TLC

VARIABLES
  cadData,      \* the CAD payload handed to convertEasyedaCadToKicad
  options,      \* {symbol, footprint}: what the caller asked for
  pc,           \* position inside convertEasyedaCadToKicad / convertObjToWrl
  eeSymbol,     \* parseEasyedaSymbol's result
  kiSymbol,     \* convertSymbolToKiCad's result
  eeFootprint,  \* parseEasyedaFootprint's result
  kiFootprint,  \* convertFootprintToKiCad's result
  result,       \* what convertEasyedaCadToKicad returns
  wrlPc,        \* position inside convertObjToWrl
  vertices,     \* the converted vertex list of the OBJ data
  linesRead,    \* how many usemtl / f lines of the OBJ data were consumed
  wrlShape,     \* the locals of the shape loop: material, coordIndex, points,
                \* linkMap, indexCounter
  rawWrl,       \* the Shape nodes emitted so far
  fnPc,         \* position of a direct call of one helper: "idle", "called", "returned"
  fnName,       \* the helper that is called
  fnArgs,       \* its arguments
  fnResult,     \* what it returned
  storage,      \* chrome.storage.local: the setting and the stored symbol library
  calls,        \* the exportPart calls of the service worker, by message
  inbox,        \* the EXPORT_PART messages that are on their way to the worker
  faults,       \* how many requests to the browser or the network have failed
  popup,        \* the popup: currentLcscId, the checkboxes, the button, the texts
  requests,     \* the EXPORT_PART messages of the popup that wait for their response
  saves,        \* the chrome.storage.local.set calls of the popup that have not settled
  events,       \* how many times the user has clicked or changed a checkbox
  page,         \* the document the content script runs in
  tabMessages   \* the messages sent to the tab of the content script, by message

cadVars == <<cadData, options, pc, eeSymbol, kiSymbol, eeFootprint, kiFootprint, result>>
wrlVars == <<wrlPc, vertices, linesRead, wrlShape, rawWrl>>
fnVars == <<fnPc, fnName, fnArgs, fnResult>>
\* Everything but the variables of one call.
workerVars == <<storage, calls, inbox, faults>>
popupVars == <<popup, requests, saves, events>>
contentVars == <<page, tabMessages>>
exceptCad == <<wrlVars, fnVars, workerVars, popupVars, contentVars>>
exceptWrl == <<cadVars, fnVars, workerVars, popupVars, contentVars>>
exceptFn == <<cadVars, wrlVars, workerVars, popupVars, contentVars>>
exceptWorker == <<cadVars, wrlVars, fnVars, popupVars, contentVars>>
exceptContent == <<cadVars, wrlVars, fnVars, workerVars, popupVars>>
\* Everything but the popup and the storage it reads and writes.
exceptPopup == <<cadVars, wrlVars, fnVars, calls, inbox, faults, contentVars>>
vars == <<cadVars, wrlVars, fnVars, workerVars, popupVars, contentVars>>

\* ------------------------------------------------------------ bounds
\* Longest shape list of a CAD payload.
MaxShapes == 2
\* Most usemtl / f lines of an OBJ file.
MaxObjLines == 5
\* The number of EXPORT_PART messages the service worker handles at once.
MaxCalls == 2
\* The number of browser or network requests that fail in one run.
MaxFaults == 1
\* The number of clicks and checkbox changes of the user in one popup.
MaxEvents == 3
\* The number of messages sent to the tab of the content script.
MaxTabMessages == 2

\* ------------------------------------------------------------ JavaScript values
Undefined == "<undefined>"
Null == [isNull |-> TRUE]
\* NaN, as produced by arithmetic on undefined.
NaN == 0 - 100000000

\* value || ""
OrEmpty(value) == IF value = Undefined THEN "" ELSE value

\* value || dflt, for a string value
OrDefault(value, dflt) == IF value = Undefined \/ value = "" THEN dflt ELSE value

\* fields[i], zero-based as in the source
Field(fields, i) == IF i + 1 <= Len(fields) THEN fields[i + 1] ELSE Undefined

\* Number(value) for the numeric strings of the inputs; every other string
\* (and undefined) is NaN, i.e. outside the table.
NumberTable ==
  ("" :> 0) @@ ("0" :> 0) @@ ("1" :> 1) @@ ("2" :> 2) @@ ("3" :> 3) @@ ("4" :> 4) @@
  ("5" :> 5) @@ ("6" :> 6) @@ ("7" :> 7) @@ ("8" :> 8) @@ ("9" :> 9) @@ ("10" :> 10) @@
  ("11" :> 11) @@ ("12" :> 12) @@ ("90" :> 90) @@ ("180" :> 180) @@ ("270" :> 270) @@ ("360" :> 360) @@
  ("-1" :> -1) @@ ("-2" :> -2) @@ ("-90" :> -90) @@ ("-180" :> -180) @@
  ("-270" :> -270) @@ ("450" :> 450)

toNumber(value, fallback) ==
  IF value \in DOMAIN NumberTable THEN NumberTable[value] ELSE fallback

\* String.prototype.toLowerCase on the flag strings of the inputs.
toLowerCase(s) ==
  CASE s = "SHOW" -> "show"
    [] s = "HIDE" -> "hide"
    [] s = "Y" -> "y"
    [] s = "N" -> "n"
    [] s = "TRUE" -> "true"
    [] s = "False" -> "false"
    [] OTHER -> s

\* toBool on a field: a string, or undefined.
toBool(value) ==
  LET str == toLowerCase(OrEmpty(value))
  IN IF str \in {"show", "true", "1"} THEN TRUE
     ELSE IF str \in {"hide", "false", "0", ""} THEN FALSE
     ELSE TRUE   \* Boolean(value) of a non-empty string

\* a % b of JavaScript: the remainder takes the sign of the dividend.
JsRem(a, b) == IF a >= 0 THEN a % b ELSE 0 - ((0 - a) % b)

Max(a, b) == IF a >= b THEN a ELSE b
Min(a, b) == IF a <= b THEN a ELSE b

Sub(a, b) == IF a = NaN \/ b = NaN THEN NaN ELSE a - b

\* Math.round(x / 10) for an integer x: floor(x/10 + 0.5)
RoundDiv10(x) == (x + 5) \div 10

\* (um).toFixed(2): hundredths of a millimetre
toFixed2(um) ==
  IF um = NaN THEN NaN
  ELSE IF um >= 0 THEN (um + 5) \div 10 ELSE 0 - ((5 - um) \div 10)

\* A variant with the factor of a unit of one mil.
convertToMm_Mil(dim) == (dim * 254) \div 10

\* convertToMm: EasyEDA units to millimetres (here micrometres)
convertToMm(dim) == dim * 254

\* pxToMm: EasyEDA pixels to millimetres (here micrometres)
pxToMm(dim) == (10 * dim * 254) \div 10

\* fpToKi: millimetres rounded to two decimals (here micrometres)
fpToKi(value) == 10 * RoundDiv10(toNumber(value, 0) * 254)

\* fpToKi on a value that is a number already
fpToKiNum(num) == 10 * RoundDiv10(num * 254)

\* String.split(" ") / trim().split(/\s+/) on the point lists of the inputs.
SplitSpace(s) ==
  CASE s = "" -> <<"">>
    [] s = "2 2 6 2 6 4" -> <<"2", "2", "6", "2", "6", "4">>
    [] s = "0 0 4 0" -> <<"0", "0", "4", "0">>
    [] s = "0 0 4 0 4 4" -> <<"0", "0", "4", "0", "4", "4">>
    [] s = "1 2" -> <<"1", "2">>
    [] s = "1 2 3 4" -> <<"1", "2", "3", "4">>
    [] s = "1 2 3 4 5 6" -> <<"1", "2", "3", "4", "5", "6">>
    [] s = "5 4 7 4 7 6 5 6" -> <<"5", "4", "7", "4", "7", "6", "5", "6">>
    [] s = "M 1 2 L 3 4 Z" -> <<"M", "1", "2", "L", "3", "4", "Z">>
    [] s = "M 1 2 L 3 4" -> <<"M", "1", "2", "L", "3", "4">>
    [] s = "M 1 2 Z" -> <<"M", "1", "2", "Z">>
    [] OTHER -> <<s>>

\* String.split(",") on the coordinate lists of the 3D metadata.
SplitComma(s) ==
  CASE s = "0,0" -> <<"0", "0">>
    [] s = "0,0,0" -> <<"0", "0", "0">>
    [] s = "6,5" -> <<"6", "5">>
    [] s = "0,0,90" -> <<"0", "0", "90">>
    [] OTHER -> <<s>>

\* ------------------------------------------------------------ lookup tables
KI_PAD_SHAPE(shape) ==
  CASE shape = "ELLIPSE" -> "circle"
    [] shape = "RECT" -> "rect"
    [] shape = "OVAL" -> "oval"
    [] shape = "POLYGON" -> "custom"
    [] OTHER -> Undefined

KI_PAD_LAYER(layerId) ==
  CASE layerId = 1 -> "F.Cu F.Paste F.Mask"
    [] layerId = 2 -> "B.Cu B.Paste B.Mask"
    [] layerId = 3 -> "F.SilkS"
    [] layerId = 11 -> "*.Cu *.Paste *.Mask"
    [] layerId = 13 -> "F.Fab"
    [] layerId = 15 -> "Dwgs.User"
    [] OTHER -> Undefined

KI_PAD_LAYER_THT(layerId) ==
  CASE layerId = 1 -> "F.Cu F.Mask"
    [] layerId = 2 -> "B.Cu B.Mask"
    [] layerId = 3 -> "F.SilkS"
    [] layerId = 11 -> "*.Cu *.Mask"
    [] layerId = 13 -> "F.Fab"
    [] layerId = 15 -> "Dwgs.User"
    [] OTHER -> Undefined

KI_LAYERS(layerId) ==
  CASE layerId = 1 -> "F.Cu"
    [] layerId = 2 -> "B.Cu"
    [] layerId = 3 -> "F.SilkS"
    [] layerId = 4 -> "B.SilkS"
    [] layerId = 5 -> "F.Paste"
    [] layerId = 6 -> "B.Paste"
    [] layerId = 7 -> "F.Mask"
    [] layerId = 8 -> "B.Mask"
    [] layerId = 10 -> "Edge.Cuts"
    [] layerId = 11 -> "Edge.Cuts"
    [] layerId = 12 -> "Cmts.User"
    [] layerId = 13 -> "F.Fab"
    [] layerId = 14 -> "B.Fab"
    [] layerId = 15 -> "Dwgs.User"
    [] layerId = 101 -> "F.Fab"
    [] OTHER -> Undefined

\* ------------------------------------------------------------ footprint parser
\* JSON.parse(rawJson) on the SVGNODE payloads of the inputs: ok is FALSE when
\* JSON.parse throws; hasAttrs is FALSE when .attrs is undefined or null, or
\* when the parsed value is null, so that a property read of attrs throws;
\* attrsIsObject tells an attrs object from a primitive such as 5, whose
\* properties all read undefined.
NoAttrs ==
  [title |-> Undefined, uuid |-> Undefined, c_origin |-> Undefined,
   z |-> Undefined, c_rotation |-> Undefined]

JsonParse(rawJson) ==
  CASE rawJson = "{\"attrs\":{\"uuid\":\"u1\",\"title\":\"SOT-23\",\"c_origin\":\"6,5\",\"z\":\"2\",\"c_rotation\":\"0,0,90\"}}" ->
         [ok |-> TRUE, hasAttrs |-> TRUE, attrsIsObject |-> TRUE,
          attrs |-> [title |-> "SOT-23", uuid |-> "u1", c_origin |-> "6,5",
                     z |-> "2", c_rotation |-> "0,0,90"]]
    [] rawJson = "{\"attrs\":{\"uuid\":\"u2\"}}" ->
         [ok |-> TRUE, hasAttrs |-> TRUE, attrsIsObject |-> TRUE,
          attrs |-> [NoAttrs EXCEPT !.uuid = "u2"]]
    [] rawJson = "{\"attrs\":{\"uuid\":\"u3\",\"title\":\"SOT 23/A\"}}" ->
         [ok |-> TRUE, hasAttrs |-> TRUE, attrsIsObject |-> TRUE,
          attrs |-> [NoAttrs EXCEPT !.uuid = "u3", !.title = "SOT 23/A"]]
    [] rawJson = "{\"attrs\":{\"uuid\":\"u4\",\"title\":\"TO-92\"}}" ->
         [ok |-> TRUE, hasAttrs |-> TRUE, attrsIsObject |-> TRUE,
          attrs |-> [NoAttrs EXCEPT !.uuid = "u4", !.title = "TO-92"]]
    [] rawJson = "{\"attrs\":5}" ->
         [ok |-> TRUE, hasAttrs |-> TRUE, attrsIsObject |-> FALSE, attrs |-> NoAttrs]
    [] rawJson = "{\"attrs\":null}" ->
         [ok |-> TRUE, hasAttrs |-> FALSE, attrsIsObject |-> FALSE, attrs |-> NoAttrs]
    [] rawJson = "{\"gId\":\"g1\"}" ->
         [ok |-> TRUE, hasAttrs |-> FALSE, attrsIsObject |-> FALSE, attrs |-> NoAttrs]
    [] rawJson = "null" ->
         [ok |-> TRUE, hasAttrs |-> FALSE, attrsIsObject |-> FALSE, attrs |-> NoAttrs]
    [] OTHER ->
         [ok |-> FALSE, hasAttrs |-> FALSE, attrsIsObject |-> FALSE, attrs |-> NoAttrs]

\* String(title).includes("-TH_") on the package titles of the inputs.
TitleIncludesTH(title) == title \in {"HDR-TH_2P-P2.54", "DIP-8-TH_L9.3"}

EmptyFootprint(cad) ==
  LET dataStr == cad.packageDetail.dataStr
      isSmd == cad.SMT /\ ~TitleIncludesTH(cad.packageDetail.title)
  IN [info |-> [name |-> OrEmpty(dataStr.head.c_para.package),
                fpType |-> IF isSmd THEN "smd" ELSE "tht",
                model3dName |-> OrEmpty(dataStr.head.c_para.model3d)],
      bbox |-> [x |-> toNumber(dataStr.head.x, 0), y |-> toNumber(dataStr.head.y, 0)],
      model3d |-> Null,
      pads |-> <<>>, tracks |-> <<>>, holes |-> <<>>, vias |-> <<>>,
      circles |-> <<>>, arcs |-> <<>>, rectangles |-> <<>>, texts |-> <<>>]

parsePad(fields) ==
  [shape |-> Field(fields, 0),
   centerX |-> toNumber(Field(fields, 1), 0),
   centerY |-> toNumber(Field(fields, 2), 0),
   width |-> toNumber(Field(fields, 3), 0),
   height |-> toNumber(Field(fields, 4), 0),
   layerId |-> toNumber(Field(fields, 5), 0),
   net |-> OrEmpty(Field(fields, 6)),
   number |-> OrEmpty(Field(fields, 7)),
   holeRadius |-> toNumber(Field(fields, 8), 0),
   points |-> OrEmpty(Field(fields, 9)),
   rotation |-> toNumber(Field(fields, 10), 0),
   id |-> OrEmpty(Field(fields, 11)),
   holeLength |-> toNumber(Field(fields, 12), 0),
   holePoint |-> OrEmpty(Field(fields, 13)),
   isPlated |-> toBool(Field(fields, 14)),
   isLocked |-> toBool(Field(fields, 15))]

parseTrack(fields) ==
  [strokeWidth |-> toNumber(Field(fields, 0), 0),
   layerId |-> toNumber(Field(fields, 1), 0),
   net |-> OrEmpty(Field(fields, 2)),
   points |-> OrEmpty(Field(fields, 3)),
   id |-> OrEmpty(Field(fields, 4)),
   isLocked |-> toBool(Field(fields, 5))]

parseHole(fields) ==
  [centerX |-> toNumber(Field(fields, 0), 0),
   centerY |-> toNumber(Field(fields, 1), 0),
   radius |-> toNumber(Field(fields, 2), 0),
   id |-> OrEmpty(Field(fields, 3)),
   isLocked |-> toBool(Field(fields, 4))]

parseVia(fields) ==
  [centerX |-> toNumber(Field(fields, 0), 0),
   centerY |-> toNumber(Field(fields, 1), 0),
   diameter |-> toNumber(Field(fields, 2), 0),
   net |-> OrEmpty(Field(fields, 3)),
   radius |-> toNumber(Field(fields, 4), 0),
   id |-> OrEmpty(Field(fields, 5)),
   isLocked |-> toBool(Field(fields, 6))]

parseFpCircle(fields) ==
  [cx |-> toNumber(Field(fields, 0), 0),
   cy |-> toNumber(Field(fields, 1), 0),
   radius |-> toNumber(Field(fields, 2), 0),
   strokeWidth |-> toNumber(Field(fields, 3), 0),
   layerId |-> toNumber(Field(fields, 4), 0),
   id |-> OrEmpty(Field(fields, 5)),
   isLocked |-> toBool(Field(fields, 6))]

parseFpArc(fields) ==
  [strokeWidth |-> toNumber(Field(fields, 0), 0),
   layerId |-> toNumber(Field(fields, 1), 0),
   net |-> OrEmpty(Field(fields, 2)),
   path |-> OrEmpty(Field(fields, 3)),
   helperDots |-> OrEmpty(Field(fields, 4)),
   id |-> OrEmpty(Field(fields, 5)),
   isLocked |-> toBool(Field(fields, 6))]

parseFpRect(fields) ==
  [x |-> toNumber(Field(fields, 0), 0),
   y |-> toNumber(Field(fields, 1), 0),
   width |-> toNumber(Field(fields, 2), 0),
   height |-> toNumber(Field(fields, 3), 0),
   strokeWidth |-> toNumber(Field(fields, 4), 0),
   id |-> OrEmpty(Field(fields, 5)),
   layerId |-> toNumber(Field(fields, 6), 0),
   isLocked |-> toBool(Field(fields, 7))]

parseFpText(fields) ==
  [type |-> OrEmpty(Field(fields, 0)),
   centerX |-> toNumber(Field(fields, 1), 0),
   centerY |-> toNumber(Field(fields, 2), 0),
   strokeWidth |-> toNumber(Field(fields, 3), 0),
   rotation |-> toNumber(Field(fields, 4), 0),
   mirror |-> OrEmpty(Field(fields, 5)),
   layerId |-> toNumber(Field(fields, 6), 0),
   net |-> OrEmpty(Field(fields, 7)),
   fontSize |-> toNumber(Field(fields, 8), 0),
   text |-> OrEmpty(Field(fields, 9)),
   textPath |-> OrEmpty(Field(fields, 10)),
   isDisplayed |-> toBool(Field(fields, 11)),
   id |-> OrEmpty(Field(fields, 12)),
   isLocked |-> toBool(Field(fields, 13))]

\* A variant without the catch: a failed read leaves an empty 3D reference.
parseSvgNode_EmptyReference(model3d, fields) ==
  [name |-> "", uuid |-> "",
   translation |-> [x |-> 0, y |-> 0, z |-> 0],
   rotation |-> [x |-> 0, y |-> 0, z |-> 0]]

\* The try block of the SVGNODE branch: the new model3d, or the old one when
\* JSON.parse or a property read of an undefined attrs throws.
parseSvgNode(model3d, fields) ==
  LET parsed == JsonParse(Field(fields, 0))
      attrs == parsed.attrs
      origin == SplitComma(OrDefault(attrs.c_origin, "0,0"))
      rotation == SplitComma(OrDefault(attrs.c_rotation, "0,0,0"))
  IN IF ~parsed.ok \/ ~parsed.hasAttrs
       THEN model3d
       ELSE [name |-> OrEmpty(attrs.title),
             uuid |-> OrEmpty(attrs.uuid),
             translation |-> [x |-> toNumber(Field(origin, 0), 0),
                              y |-> toNumber(Field(origin, 1), 0),
                              z |-> toNumber(attrs.z, 0)],
             rotation |-> [x |-> toNumber(Field(rotation, 0), 0),
                           y |-> toNumber(Field(rotation, 1), 0),
                           z |-> toNumber(Field(rotation, 2), 0)]]

\* One iteration of the shape loop of parseEasyedaFootprint.
parseFootprintLine(footprint, line) ==
  LET designator == line[1]
      fields == Tail(line)
  IN CASE designator = "PAD" ->
            [footprint EXCEPT !.pads = Append(@, parsePad(fields))]
       [] designator = "TRACK" ->
            [footprint EXCEPT !.tracks = Append(@, parseTrack(fields))]
       [] designator = "HOLE" ->
            [footprint EXCEPT !.holes = Append(@, parseHole(fields))]
       [] designator = "VIA" ->
            [footprint EXCEPT !.vias = Append(@, parseVia(fields))]
       [] designator = "CIRCLE" ->
            [footprint EXCEPT !.circles = Append(@, parseFpCircle(fields))]
       [] designator = "ARC" ->
            [footprint EXCEPT !.arcs = Append(@, parseFpArc(fields))]
       [] designator = "RECT" ->
            [footprint EXCEPT !.rectangles = Append(@, parseFpRect(fields))]
       [] designator = "TEXT" ->
            [footprint EXCEPT !.texts = Append(@, parseFpText(fields))]
       [] designator = "SVGNODE" ->
            [footprint EXCEPT !.model3d = parseSvgNode(@, fields)]
       [] OTHER -> footprint

RECURSIVE parseFootprintShapes(_, _)
parseFootprintShapes(footprint, shapes) ==
  IF shapes = <<>> THEN footprint
  ELSE parseFootprintShapes(parseFootprintLine(footprint, Head(shapes)), Tail(shapes))

parseEasyedaFootprint(cad) ==
  parseFootprintShapes(EmptyFootprint(cad), cad.packageDetail.dataStr.shape)

\* ------------------------------------------------------------ footprint converter
RECURSIVE MapSeq(_, _)
\* Array.prototype.map
MapSeq(F(_), seq) ==
  IF seq = <<>> THEN <<>> ELSE <<F(Head(seq))>> \o MapSeq(F, Tail(seq))

convertModel3d(footprint) ==
  LET m == footprint.model3d
      bboxX == convertToMm(footprint.bbox.x)
      bboxY == convertToMm(footprint.bbox.y)
  IN IF m = Null THEN Null
     ELSE [m EXCEPT
             !.translation =
                [x |-> convertToMm(m.translation.x) - bboxX,
                 y |-> 0 - (convertToMm(m.translation.y) - bboxY),
                 z |-> IF footprint.info.fpType = "smd"
                         THEN 0 - convertToMm(m.translation.z) ELSE 0],
             \* degrees in thousandths: (360 - convertToMm(v)) % 360
             !.rotation =
                [x |-> JsRem(360000 - convertToMm(m.rotation.x), 360000),
                 y |-> JsRem(360000 - convertToMm(m.rotation.y), 360000),
                 z |-> JsRem(360000 - convertToMm(m.rotation.z), 360000)]]

convertFootprintToKiCad(footprint) ==
  LET convPad(pad) ==
        [pad EXCEPT !.centerX = convertToMm(@), !.centerY = convertToMm(@),
                    !.width = convertToMm(@), !.height = convertToMm(@),
                    !.holeRadius = convertToMm(@), !.holeLength = convertToMm(@)]
      convTrack(track) == [track EXCEPT !.strokeWidth = convertToMm(@)]
      convHole(hole) ==
        [hole EXCEPT !.centerX = convertToMm(@), !.centerY = convertToMm(@),
                     !.radius = convertToMm(@)]
      convVia(via) ==
        [via EXCEPT !.centerX = convertToMm(@), !.centerY = convertToMm(@),
                    !.diameter = convertToMm(@), !.radius = convertToMm(@)]
      convCircle(circle) ==
        [circle EXCEPT !.cx = convertToMm(@), !.cy = convertToMm(@),
                       !.radius = convertToMm(@), !.strokeWidth = convertToMm(@)]
      convRect(rect) ==
        [rect EXCEPT !.x = convertToMm(@), !.y = convertToMm(@),
                     !.width = convertToMm(@), !.height = convertToMm(@)]
      convText(text) ==
        [text EXCEPT !.centerX = convertToMm(@), !.centerY = convertToMm(@),
                     !.strokeWidth = convertToMm(@), !.fontSize = convertToMm(@)]
  IN [info |-> footprint.info,
      bbox |-> [x |-> convertToMm(footprint.bbox.x), y |-> convertToMm(footprint.bbox.y)],
      pads |-> MapSeq(convPad, footprint.pads),
      tracks |-> MapSeq(convTrack, footprint.tracks),
      holes |-> MapSeq(convHole, footprint.holes),
      vias |-> MapSeq(convVia, footprint.vias),
      circles |-> MapSeq(convCircle, footprint.circles),
      arcs |-> footprint.arcs,
      rectangles |-> MapSeq(convRect, footprint.rectangles),
      texts |-> MapSeq(convText, footprint.texts),
      model3d |-> convertModel3d(footprint)]

\* ------------------------------------------------------------ footprint exporter
\* points[i], zero-based; an index past the end reads undefined, which
\* arithmetic turns into NaN.
NumAt(points, i) == IF i + 1 <= Len(points) THEN points[i + 1] ELSE NaN

\* angleToKi: KiCad's signed degree convention
angleToKi(rotation) == IF rotation > 180 THEN 0 - (360 - rotation) ELSE rotation

\* (degrees).toFixed(2), in hundredths of a degree
degToFixed2(deg) == deg * 100

\* (thousandths).toFixed(0)
toFixed0(t) == IF t >= 0 THEN (t + 500) \div 1000 ELSE 0 - ((500 - t) \div 1000)

NoDrill == [kind |-> "none", sizeX |-> 0, sizeY |-> 0]

\* A variant that puts the longer drill dimension on the axis of larger margin.
drillToKi_LongerAlongMargin(holeRadius, holeLength, padHeight, padWidth) ==
  IF holeRadius > 0 /\ holeLength # 0
    THEN LET long == Max(holeRadius * 2, holeLength)
             short == Min(holeRadius * 2, holeLength)
         IN IF padHeight - long >= padWidth - long
              THEN [kind |-> "oval", sizeX |-> toFixed2(short), sizeY |-> toFixed2(long)]
              ELSE [kind |-> "oval", sizeX |-> toFixed2(long), sizeY |-> toFixed2(short)]
    ELSE IF holeRadius > 0
      THEN [kind |-> "round", sizeX |-> toFixed2(2 * holeRadius),
            sizeY |-> toFixed2(2 * holeRadius)]
      ELSE [kind |-> "none", sizeX |-> 0, sizeY |-> 0]

\* A variant that chooses the oval drill on the hole length alone.
drillToKi_LengthOnly(holeRadius, holeLength, padHeight, padWidth) ==
  IF holeLength # 0
    THEN IF padHeight >= padWidth
           THEN [kind |-> "oval", sizeX |-> toFixed2(holeRadius * 2),
                 sizeY |-> toFixed2(holeLength)]
           ELSE [kind |-> "oval", sizeX |-> toFixed2(holeLength),
                 sizeY |-> toFixed2(holeRadius * 2)]
    ELSE IF holeRadius > 0
      THEN [kind |-> "round", sizeX |-> toFixed2(2 * holeRadius),
            sizeY |-> toFixed2(2 * holeRadius)]
      ELSE [kind |-> "none", sizeX |-> 0, sizeY |-> 0]

\* drillToKi: the drill clause of a pad. "(drill oval X Y)" is the oval
\* clause, "(drill D)" the round one, and "" stands for no clause.
drillToKi(holeRadius, holeLength, padHeight, padWidth) ==
  IF holeRadius > 0 /\ holeLength # 0
    THEN LET maxDistanceHole == Max(holeRadius * 2, holeLength)
             pos0 == padHeight - maxDistanceHole
             pos90 == padWidth - maxDistanceHole
             maxDistance == Max(pos0, pos90)
         IN IF maxDistance = pos0
              THEN [kind |-> "oval", sizeX |-> toFixed2(holeRadius * 2),
                    sizeY |-> toFixed2(holeLength)]
              ELSE [kind |-> "oval", sizeX |-> toFixed2(holeLength),
                    sizeY |-> toFixed2(holeRadius * 2)]
    ELSE IF holeRadius > 0
      THEN [kind |-> "round", sizeX |-> toFixed2(2 * holeRadius),
            sizeY |-> toFixed2(2 * holeRadius)]
      ELSE NoDrill

RECURSIVE padPolygonPath(_, _, _, _)
\* The loop building the gr_poly points of a custom pad.
padPolygonPath(points, i, pad, bbox) ==
  IF i >= Len(points) THEN <<>>
  ELSE LET x == Sub(Sub(NumAt(points, i), bbox.x), pad.centerX - bbox.x)
           y == Sub(Sub(NumAt(points, i + 1), bbox.y), pad.centerY - bbox.y)
       IN <<[x |-> toFixed2(x), y |-> toFixed2(y)]>>
            \o padPolygonPath(points, i + 2, pad, bbox)

\* The characters of the pad numbers of the inputs and of their parts.
Characters(text) ==
  CASE text = "" -> <<>>
    [] text = "1" -> <<"1">>
    [] text = "2" -> <<"2">>
    [] text = "3" -> <<"3">>
    [] text = "12" -> <<"1", "2">>
    [] text = "A" -> <<"A">>
    [] text = ")A" -> <<")", "A">>
    [] text = "A1" -> <<"A", "1">>
    [] text = "A(12)" -> <<"A", "(", "1", "2", ")">>
    [] text = "(3)B" -> <<"(", "3", ")", "B">>
    [] text = "A(1)(2)" -> <<"A", "(", "1", ")", "(", "2", ")">>
    [] text = "A((1))" -> <<"A", "(", "(", "1", ")", ")">>
    [] text = "1)(2" -> <<"1", ")", "(", "2">>
    [] text = ")A(" -> <<")", "A", "(">>
    [] text = "A(1" -> <<"A", "(", "1">>
    [] text = "1)" -> <<"1", ")">>
    [] text = "()" -> <<"(", ")">>

Texts ==
  {"", "1", "2", "3", "12", "A", ")A", "A1", "A(12)", "(3)B", "A(1)(2)", "A((1))", "1)(2", ")A(",
   "A(1", "1)", "()"}

\* The text with the given characters.
TextOf(chars) == CHOOSE text \in Texts : Characters(text) = chars

\* The position of the first occurrence of a character, or one past the end.
IndexOf(chars, c) ==
  IF \E i \in 1..Len(chars) : chars[i] = c
    THEN CHOOSE i \in 1..Len(chars) : chars[i] = c /\ \A j \in 1..(i - 1) : chars[j] # c
    ELSE Len(chars) + 1

\* A variant that takes the piece before the first "(".
InParentheses_BeforeOpen(number) ==
  LET chars == Characters(number)
  IN TextOf(SubSeq(chars, 1, IndexOf(chars, "(") - 1))

\* number.split("(")[1].split(")")[0]: the piece between the first "(" and
\* the next "(", cut at its first ")".
InParentheses(number) ==
  LET chars == Characters(number)
      afterOpen == SubSeq(chars, IndexOf(chars, "(") + 1, Len(chars))
      piece == SubSeq(afterOpen, 1, IndexOf(afterOpen, "(") - 1)
  IN TextOf(SubSeq(piece, 1, IndexOf(piece, ")") - 1))

\* number.includes("(") && number.includes(")")
HasParentheses(number) ==
  LET chars == Characters(number)
  IN IndexOf(chars, "(") <= Len(chars) /\ IndexOf(chars, ")") <= Len(chars)

\* A variant that lets a non-empty outline force the custom shape.
padShape_OutlineForcesCustom(pad) ==
  IF pad.points # "" \/ KI_PAD_SHAPE(pad.shape) = Undefined
    THEN "custom" ELSE KI_PAD_SHAPE(pad.shape)

\* The mapped KiCad shape of a pad: KI_PAD_SHAPE[pad.shape] || "custom"
padShape(pad) ==
  IF KI_PAD_SHAPE(pad.shape) = Undefined THEN "custom" ELSE KI_PAD_SHAPE(pad.shape)

\* One iteration of the pad loop of exportKiCadFootprint: the pad clause.
exportPad(pad, bbox) ==
  LET shape == padShape(pad)
      isCustom == shape = "custom"
      points == MapSeq(fpToKi, SplitSpace(pad.points))
      \* split() never returns an empty array, so points.length is truthy
      width == IF isCustom THEN 5 ELSE Max(pad.width, 10)
      height == IF isCustom THEN 5 ELSE Max(pad.height, 10)
      orientation == IF isCustom THEN 0 ELSE angleToKi(pad.rotation)
      layers == IF pad.holeRadius <= 0
                  THEN OrEmpty(KI_PAD_LAYER(pad.layerId))
                  ELSE OrEmpty(KI_PAD_LAYER_THT(pad.layerId))
  IN [kind |-> "pad",
      number |-> IF HasParentheses(pad.number)
                   THEN InParentheses(pad.number) ELSE pad.number,
      type |-> IF pad.holeRadius > 0 THEN "thru_hole" ELSE "smd",
      shape |-> shape,
      posX |-> toFixed2(pad.centerX - bbox.x),
      posY |-> toFixed2(pad.centerY - bbox.y),
      orientation |-> degToFixed2(orientation),
      width |-> toFixed2(width),
      height |-> toFixed2(height),
      layers |-> layers,
      drill |-> drillToKi(pad.holeRadius, pad.holeLength, height, width),
      hasPolygon |-> isCustom,
      polygon |-> IF isCustom THEN padPolygonPath(points, 0, pad, bbox) ELSE <<>>]

fpLine(sx, sy, ex, ey, layers, strokeWidth) ==
  [kind |-> "fp_line", startX |-> toFixed2(sx), startY |-> toFixed2(sy),
   endX |-> toFixed2(ex), endY |-> toFixed2(ey), layers |-> layers,
   width |-> toFixed2(Max(strokeWidth, 10))]

RECURSIVE trackLines(_, _, _, _)
\* The segment loop of one track.
trackLines(points, i, track, bbox) ==
  IF i >= Len(points) - 2 THEN <<>>
  ELSE <<fpLine(Sub(NumAt(points, i), bbox.x), Sub(NumAt(points, i + 1), bbox.y),
                Sub(NumAt(points, i + 2), bbox.x), Sub(NumAt(points, i + 3), bbox.y),
                OrDefault(KI_PAD_LAYER(track.layerId), "F.Fab"), track.strokeWidth)>>
         \o trackLines(points, i + 2, track, bbox)

exportTrack(track, bbox) ==
  trackLines(MapSeq(fpToKi, SplitSpace(track.points)), 0, track, bbox)

exportRect(rect, bbox) ==
  LET startX == rect.x - bbox.x
      startY == rect.y - bbox.y
      width == rect.width
      height == rect.height
      layers == OrDefault(KI_PAD_LAYER(rect.layerId), "F.Fab")
  IN <<fpLine(startX, startY, startX + width, startY, layers, rect.strokeWidth),
       fpLine(startX + width, startY, startX + width, startY + height, layers, rect.strokeWidth),
       fpLine(startX + width, startY + height, startX, startY + height, layers, rect.strokeWidth),
       fpLine(startX, startY + height, startX, startY, layers, rect.strokeWidth)>>

exportHole(hole, bbox) ==
  <<[kind |-> "hole", posX |-> toFixed2(hole.centerX - bbox.x),
     posY |-> toFixed2(hole.centerY - bbox.y), size |-> toFixed2(hole.radius * 2)]>>

exportVia(via, bbox) ==
  <<[kind |-> "via", posX |-> toFixed2(via.centerX - bbox.x),
     posY |-> toFixed2(via.centerY - bbox.y), diameter |-> toFixed2(via.diameter),
     size |-> toFixed2(via.radius * 2)]>>

exportCircle(circle, bbox) ==
  LET cx == circle.cx - bbox.x
      cy == circle.cy - bbox.y
  IN <<[kind |-> "fp_circle", cx |-> toFixed2(cx), cy |-> toFixed2(cy),
        endX |-> toFixed2(cx + circle.radius), endY |-> toFixed2(cy),
        layers |-> OrDefault(KI_LAYERS(circle.layerId), "F.Fab"),
        width |-> toFixed2(Max(circle.strokeWidth, 10))]>>

\* arcPath.split("A") after the separator clean-up, on the arc paths of the
\* inputs: the text before the first "A" without its leading "M", and the
\* text after it; hasA is FALSE when the path holds no "A", so that
\* split("A")[1] is undefined.
SplitArcPath(path) ==
  CASE path = "M 0 0 A 2 2 0 0 1 4 0" ->
         [hasA |-> TRUE, start |-> "0 0", parameters |-> "2 2 0 0 1 4 0"]
    [] path = "M2,2 A1,1 0 1 0 4,2" ->
         [hasA |-> TRUE, start |-> "2 2", parameters |-> "1 1 0 1 0 4 2"]
    [] path = "M 4 4 A" ->
         [hasA |-> TRUE, start |-> "4 4", parameters |-> ""]
    [] OTHER -> [hasA |-> FALSE, start |-> "", parameters |-> ""]

SplitArcTokens(s) ==
  CASE s = "0 0" -> <<"0", "0">>
    [] s = "2 2" -> <<"2", "2">>
    [] s = "4 4" -> <<"4", "4">>
    [] s = "2 2 0 0 1 4 0" -> <<"2", "2", "0", "0", "1", "4", "0">>
    [] s = "1 1 0 1 0 4 2" -> <<"1", "1", "0", "1", "0", "4", "2">>
    [] OTHER -> <<s>>

\* Whether one iteration of the arc loop throws: reading .replace of
\* arcPath.split("A")[1] when the path holds no "A".
arcRaises(arc) == ~SplitArcPath(arc.path).hasA

\* One iteration of the arc loop, for a path that holds an "A".
exportArc(arc, bbox) ==
  LET split == SplitArcPath(arc.path)
      start == SplitArcTokens(split.start)
      params == SplitArcTokens(split.parameters)
      svgRy == fpToKi(Field(params, 1))
      endX == fpToKi(Field(params, 5)) - bbox.x
      endY == fpToKi(Field(params, 6)) - bbox.y
  IN <<[kind |-> "fp_arc",
        solved |-> svgRy # 0,
        endX |-> toFixed2(endX), endY |-> toFixed2(endY),
        layers |-> OrDefault(KI_LAYERS(arc.layerId), "F.Fab"),
        width |-> toFixed2(Max(fpToKiNum(arc.strokeWidth), 10))]>>

\* layers.replace(".SilkS", ".Fab")
SilkToFab(layers) ==
  CASE layers = "F.SilkS" -> "F.Fab"
    [] layers = "B.SilkS" -> "B.Fab"
    [] OTHER -> layers

\* layers.startsWith("B")
StartsWithB(layers) ==
  layers \in {"B.Cu", "B.SilkS", "B.Paste", "B.Mask", "B.Fab"}

exportText(text, bbox) ==
  LET layer0 == OrDefault(KI_LAYERS(text.layerId), "F.Fab")
      layers == IF text.type = "N" THEN SilkToFab(layer0) ELSE layer0
  IN <<[kind |-> "fp_text", text |-> text.text,
        posX |-> toFixed2(text.centerX - bbox.x),
        posY |-> toFixed2(text.centerY - bbox.y),
        orientation |-> degToFixed2(angleToKi(text.rotation)),
        layers |-> layers,
        hide |-> text.isDisplayed = FALSE,
        fontSize |-> toFixed2(Max(text.fontSize, 1000)),
        thickness |-> toFixed2(Max(text.strokeWidth, 10)),
        mirror |-> StartsWithB(layers)]>>

exportModel3d(model3d, model3dPath) ==
  IF model3d # Null /\ model3dPath # ""
    THEN <<[kind |-> "model",
            file3d |-> <<model3dPath, "/", model3d.name, ".wrl">>,
            posX |-> model3d.translation.x,
            posY |-> model3d.translation.y,
            posZ |-> model3d.translation.z,
            rotX |-> toFixed0(model3d.rotation.x),
            rotY |-> toFixed0(model3d.rotation.y),
            rotZ |-> toFixed0(model3d.rotation.z)]>>
    ELSE <<>>

RECURSIVE FlatMap(_, _, _)
\* The concatenation of F(e, arg) over the elements e of seq.
FlatMap(F(_, _), seq, arg) ==
  IF seq = <<>> THEN <<>> ELSE F(Head(seq), arg) \o FlatMap(F, Tail(seq), arg)

RECURSIVE SeqMin(_)
SeqMin(seq) == IF Len(seq) = 1 THEN seq[1] ELSE Min(Head(seq), SeqMin(Tail(seq)))

RECURSIVE SeqMax(_)
SeqMax(seq) == IF Len(seq) = 1 THEN seq[1] ELSE Max(Head(seq), SeqMax(Tail(seq)))

\* exportKiCadFootprint: raised is TRUE when the function throws; otherwise
\* output is the sequence of clauses of the module text, in order.
exportKiCadFootprint(kiFp, model3dPath) ==
  LET bbox == kiFp.bbox
      padY(pad) == pad.centerY - bbox.y
      yLow == IF Len(kiFp.pads) > 0 THEN SeqMin(MapSeq(padY, kiFp.pads)) ELSE 0 - 2000
      yHigh == IF Len(kiFp.pads) > 0 THEN SeqMax(MapSeq(padY, kiFp.pads)) ELSE 2000
      padClause(pad, b) == <<exportPad(pad, b)>>
      header ==
        <<[kind |-> "module", name |-> kiFp.info.name,
           attr |-> IF kiFp.info.fpType = "smd" THEN "smd" ELSE "through_hole"],
          [kind |-> "reference", posY |-> toFixed2(yLow - 4000)],
          [kind |-> "value", name |-> kiFp.info.name, posY |-> toFixed2(yHigh + 4000)],
          [kind |-> "fabRef"]>>
  IN IF \E i \in 1..Len(kiFp.arcs) : arcRaises(kiFp.arcs[i])
       THEN [raised |-> TRUE, output |-> <<>>]
       ELSE [raised |-> FALSE,
             output |-> header
                        \o FlatMap(exportTrack, kiFp.tracks, bbox)
                        \o FlatMap(exportRect, kiFp.rectangles, bbox)
                        \o FlatMap(padClause, kiFp.pads, bbox)
                        \o FlatMap(exportHole, kiFp.holes, bbox)
                        \o FlatMap(exportVia, kiFp.vias, bbox)
                        \o FlatMap(exportCircle, kiFp.circles, bbox)
                        \o FlatMap(exportArc, kiFp.arcs, bbox)
                        \o FlatMap(exportText, kiFp.texts, bbox)
                        \o exportModel3d(kiFp.model3d, model3dPath)]

\* ------------------------------------------------------------ symbol parser
\* A symbol line is modelled by line.split("^^"), each segment by its
\* split("~"); the lines other than pins hold one segment.

\* segments[k] || "", split on "~"
Segment(line, k) == IF k + 1 <= Len(line) THEN line[k + 1] ELSE <<"">>

\* String(value || "").toLowerCase() !== "none"
IsFilled(value) == toLowerCase(OrEmpty(value)) \notin {"none", "NONE"}

\* String(path || "").replace(/v/g, "h") on the pin paths of the inputs.
PinPathToH(path) ==
  CASE path = "M 0 0 v 10" -> "M 0 0 h 10"
    [] path = "M0,0v-5" -> "M0,0h-5"
    [] OTHER -> path

\* parseSvgPath on the arc paths of the inputs.
parseSvgPath(svgPath) ==
  CASE svgPath = "M 0 0 A 2 2 0 0 1 4 0" ->
         <<[type |-> "M", x |-> 0, y |-> 0, radiusX |-> 0, radiusY |-> 0,
            xAxisRotation |-> 0, flagLargeArc |-> FALSE, flagSweep |-> FALSE],
           [type |-> "A", x |-> 4, y |-> 0, radiusX |-> 2, radiusY |-> 2,
            xAxisRotation |-> 0, flagLargeArc |-> FALSE, flagSweep |-> TRUE]>>
    [] svgPath = "M 0 0 L 4 0" ->
         <<[type |-> "M", x |-> 0, y |-> 0, radiusX |-> 0, radiusY |-> 0,
            xAxisRotation |-> 0, flagLargeArc |-> FALSE, flagSweep |-> FALSE],
           [type |-> "L", x |-> 4, y |-> 0, radiusX |-> 0, radiusY |-> 0,
            xAxisRotation |-> 0, flagLargeArc |-> FALSE, flagSweep |-> FALSE]>>
    [] OTHER -> <<>>

\* The font size of a pin name: "7pt" and "7" both read 7, anything else 7.
pinFontSize(value) ==
  CASE value = "7pt" -> 7
    [] value = "5pt" -> 5
    [] OTHER -> toNumber(value, 7)

parsePin(line) ==
  LET settingsFields == Tail(Segment(line, 0))
      pinPathFields == Segment(line, 2)
      pinNameFields == Segment(line, 3)
      pinDotBisFields == Segment(line, 5)
      pinClockFields == Segment(line, 6)
  IN [settings |->
        [isDisplayed |-> toBool(Field(settingsFields, 0)),
         type |-> toNumber(Field(settingsFields, 1), 0),
         number |-> OrEmpty(Field(settingsFields, 2)),
         posX |-> toNumber(Field(settingsFields, 3), 0),
         posY |-> toNumber(Field(settingsFields, 4), 0),
         rotation |-> toNumber(Field(settingsFields, 5), 0),
         id |-> OrEmpty(Field(settingsFields, 6)),
         isLocked |-> toBool(Field(settingsFields, 7))],
      pinPath |->
        [path |-> PinPathToH(OrEmpty(Field(pinPathFields, 0))),
         color |-> OrEmpty(Field(pinPathFields, 1))],
      name |->
        [isDisplayed |-> toBool(Field(pinNameFields, 0)),
         posX |-> toNumber(Field(pinNameFields, 1), 0),
         posY |-> toNumber(Field(pinNameFields, 2), 0),
         rotation |-> toNumber(Field(pinNameFields, 3), 0),
         text |-> OrEmpty(Field(pinNameFields, 4)),
         textAnchor |-> OrEmpty(Field(pinNameFields, 5)),
         font |-> OrEmpty(Field(pinNameFields, 6)),
         fontSize |-> pinFontSize(Field(pinNameFields, 7))],
      dot |->
        [isDisplayed |-> toBool(Field(pinDotBisFields, 0)),
         circleX |-> toNumber(Field(pinDotBisFields, 1), 0),
         circleY |-> toNumber(Field(pinDotBisFields, 2), 0)],
      clock |->
        [isDisplayed |-> toBool(Field(pinClockFields, 0)),
         path |-> OrEmpty(Field(pinClockFields, 1))]]

\* String(pre).replace("?", "") on the prefixes of the inputs.
StripQuestion(pre) ==
  CASE pre = "U?" -> "U"
    [] pre = "R?" -> "R"
    [] OTHER -> pre

EmptySymbol(cad) ==
  LET info == cad.dataStr.head.c_para
  IN [info |-> [name |-> OrEmpty(info.name),
                prefix |-> StripQuestion(OrEmpty(info.pre)),
                package |-> OrEmpty(info.package),
                manufacturer |-> OrEmpty(info.BOM_Manufacturer),
                datasheet |-> OrEmpty(cad.lcsc.url),
                lcscId |-> OrEmpty(cad.lcsc.number),
                jlcId |-> OrEmpty(info.BOM_JLCPCB_Part_Class)],
      bbox |-> [x |-> toNumber(cad.dataStr.head.x, 0),
                y |-> toNumber(cad.dataStr.head.y, 0)],
      pins |-> <<>>, rectangles |-> <<>>, circles |-> <<>>, arcs |-> <<>>,
      ellipses |-> <<>>, polylines |-> <<>>, polygons |-> <<>>, paths |-> <<>>]

\* A variant that keeps a record of an unknown designator as a path.
parseSymbolLine_UnknownAsPath(symbol, line) ==
  IF line[1][1] \in {"P", "R", "PL", "PG", "PT", "C", "E", "A"}
    THEN symbol
    ELSE [symbol EXCEPT !.paths = Append(@, [paths |-> Field(Tail(line[1]), 0)])]

\* One iteration of the shape loop of parseEasyedaSymbol.
parseSymbolLine(symbol, line) ==
  LET designator == line[1][1]
      fields == Tail(line[1])
  IN CASE designator = "P" ->
            [symbol EXCEPT !.pins = Append(@, parsePin(line))]
       [] designator = "R" ->
            [symbol EXCEPT !.rectangles = Append(@,
               [posX |-> toNumber(Field(fields, 0), 0),
                posY |-> toNumber(Field(fields, 1), 0),
                width |-> toNumber(Field(fields, 4), 0),
                height |-> toNumber(Field(fields, 5), 0)])]
       [] designator = "PL" ->
            [symbol EXCEPT !.polylines = Append(@,
               [points |-> Field(fields, 0),
                fillColor |-> IsFilled(Field(fields, 4))])]
       [] designator = "PG" ->
            [symbol EXCEPT !.polygons = Append(@,
               [points |-> Field(fields, 0), fillColor |-> TRUE])]
       [] designator = "PT" ->
            [symbol EXCEPT !.paths = Append(@, [paths |-> Field(fields, 0)])]
       [] designator = "C" ->
            [symbol EXCEPT !.circles = Append(@,
               [centerX |-> toNumber(Field(fields, 0), 0),
                centerY |-> toNumber(Field(fields, 1), 0),
                radius |-> toNumber(Field(fields, 2), 0),
                fillColor |-> IsFilled(Field(fields, 5))])]
       [] designator = "E" ->
            [symbol EXCEPT !.ellipses = Append(@,
               [centerX |-> toNumber(Field(fields, 0), 0),
                centerY |-> toNumber(Field(fields, 1), 0),
                radiusX |-> toNumber(Field(fields, 2), 0),
                radiusY |-> toNumber(Field(fields, 3), 0)])]
       [] designator = "A" ->
            [symbol EXCEPT !.arcs = Append(@,
               [path |-> parseSvgPath(OrEmpty(Field(fields, 0))),
                fillColor |-> IsFilled(Field(fields, 4))])]
       [] OTHER -> symbol

RECURSIVE parseSymbolShapes(_, _)
parseSymbolShapes(symbol, shapes) ==
  IF shapes = <<>> THEN symbol
  ELSE parseSymbolShapes(parseSymbolLine(symbol, Head(shapes)), Tail(shapes))

parseEasyedaSymbol(cad) == parseSymbolShapes(EmptySymbol(cad), cad.dataStr.shape)

\* ------------------------------------------------------------ symbol converter
EASYEDA_PIN_TYPE_MAP(type) ==
  CASE type = 0 -> "unspecified"
    [] type = 1 -> "input"
    [] type = 2 -> "output"
    [] type = 3 -> "bidirectional"
    [] type = 4 -> "power_in"
    [] OTHER -> Undefined

\* Math.abs(toNumber(path.split("h").pop())) on the pin paths of the inputs.
pinLengthOf(path) ==
  CASE path = "M 0 0 h 10" -> 10
    [] path = "M0,0h-5" -> 5
    [] OTHER -> 0

\* text.replace(/\s+/g, "") on the names of the inputs.
StripSpaces(text) ==
  CASE text = "VCC 3V3" -> "VCC3V3"
    [] text = "NE 555" -> "NE555"
    [] OTHER -> text

\* sanitizeFields: no white space, "/" replaced by "_"
sanitizeFields(name) ==
  CASE name = "NE 555" -> "NE555"
    [] name = "A/B" -> "A_B"
    [] OTHER -> name

\* A variant that looks at the clock marker first.
pinStyle_ClockFirst(pin) ==
  IF pin.clock.isDisplayed THEN "clock"
  ELSE IF pin.dot.isDisplayed THEN "inverted"
  ELSE "line"

\* The pin style of convertSymbolToKiCad.
pinStyle(pin) ==
  IF pin.dot.isDisplayed /\ pin.clock.isDisplayed THEN "inverted_clock"
  ELSE IF pin.dot.isDisplayed THEN "inverted"
  ELSE IF pin.clock.isDisplayed THEN "clock"
  ELSE "line"

convertPin(pin, bbox) ==
  <<[name |-> StripSpaces(pin.name.text),
     number |-> StripSpaces(pin.settings.number),
     style |-> pinStyle(pin),
     length |-> pxToMm(pinLengthOf(pin.pinPath.path)),
     type |-> OrDefault(EASYEDA_PIN_TYPE_MAP(pin.settings.type), "unspecified"),
     orientation |-> JsRem(180 + pin.settings.rotation, 360),
     posX |-> pxToMm(pin.settings.posX - bbox.x),
     posY |-> 0 - pxToMm(pin.settings.posY - bbox.y)]>>

convertRectangle(rect, bbox) ==
  LET posX0 == pxToMm(rect.posX - bbox.x)
      posY0 == 0 - pxToMm(rect.posY - bbox.y)
  IN <<[posX0 |-> posX0, posY0 |-> posY0,
        posX1 |-> posX0 + pxToMm(rect.width),
        posY1 |-> posY0 - pxToMm(rect.height)]>>

convertCircle(circle, bbox) ==
  <<[posX |-> pxToMm(circle.centerX - bbox.x),
     posY |-> 0 - pxToMm(circle.centerY - bbox.y),
     radius |-> pxToMm(circle.radius),
     background |-> circle.fillColor]>>

\* Only the ellipses that are circles are kept.
convertEllipse(ellipse, bbox) ==
  IF ellipse.radiusX = ellipse.radiusY
    THEN <<[posX |-> pxToMm(ellipse.centerX - bbox.x),
            posY |-> 0 - pxToMm(ellipse.centerY - bbox.y),
            radius |-> pxToMm(ellipse.radiusX),
            background |-> FALSE]>>
    ELSE <<>>

\* An arc is kept when its path starts with a move and an elliptical arc;
\* its end points are converted here.
convertArc(arc, bbox) ==
  IF Len(arc.path) < 2 \/ arc.path[1].type # "M" \/ arc.path[2].type # "A"
    THEN <<>>
    ELSE <<[startX |-> pxToMm(arc.path[1].x - bbox.x),
            startY |-> 0 - pxToMm(arc.path[1].y - bbox.y),
            endX |-> pxToMm(arc.path[2].x - bbox.x),
            endY |-> 0 - pxToMm(arc.path[2].y - bbox.y),
            fill |-> arc.fillColor]>>

RECURSIVE polylinePoints(_, _, _)
\* The loop of convertPolyline over the tokens, two at a time; a missing
\* second token reads undefined, which toNumber turns into 0.
polylinePoints(rawPts, i, bbox) ==
  IF i >= Len(rawPts) THEN <<>>
  ELSE <<[x |-> pxToMm(toNumber(Field(rawPts, i), 0) - bbox.x),
          y |-> 0 - pxToMm(toNumber(Field(rawPts, i + 1), 0) - bbox.y),
          defined |-> TRUE]>>
         \o polylinePoints(rawPts, i + 2, bbox)

\* convertPolyline: Null when no point was collected.
convertPolyline(polyline, closeIfFilled, bbox) ==
  LET rawPts == SplitSpace(OrEmpty(polyline.points))
      open == polylinePoints(rawPts, 0, bbox)
      pts == IF closeIfFilled THEN Append(open, open[1]) ELSE open
  IN IF Len(pts) = 0 THEN Null
     ELSE [points |-> pts, isClosed |-> pts[1].x = pts[Len(pts)].x]

\* The polylines and polygons of the converted symbol.
polylineToPolygon(polyline, bbox) ==
  LET poly == convertPolyline(polyline, polyline.fillColor, bbox)
  IN IF poly = Null THEN <<>> ELSE <<poly>>

polygonToPolygon(polygon, bbox) ==
  LET poly == convertPolyline(polygon, TRUE, bbox)
  IN IF poly = Null THEN <<>> ELSE <<poly>>

UndefinedPoint == [x |-> 0, y |-> 0, defined |-> FALSE]

RECURSIVE pathPoints(_, _, _, _)
\* The token loop over a path: M and L take two coordinates, Z repeats the
\* first point (undefined when no point was collected yet).
pathPoints(rawPts, i, acc, bbox) ==
  IF i >= Len(rawPts) THEN acc
  ELSE LET token == Field(rawPts, i)
       IN IF token = "M" \/ token = "L"
            THEN pathPoints(rawPts, i + 3,
                   Append(acc, [x |-> pxToMm(toNumber(Field(rawPts, i + 1), 0) - bbox.x),
                                y |-> 0 - pxToMm(toNumber(Field(rawPts, i + 2), 0) - bbox.y),
                                defined |-> TRUE]),
                   bbox)
          ELSE IF token = "Z"
            THEN pathPoints(rawPts, i + 1,
                   Append(acc, IF Len(acc) > 0 THEN acc[1] ELSE UndefinedPoint), bbox)
          ELSE pathPoints(rawPts, i + 1, acc, bbox)

\* x === y of two collected coordinates: undefined equals only undefined.
SameX(p, q) == (p.defined = q.defined) /\ (p.defined => p.x = q.x)

pathToPolygon(path, bbox) ==
  LET pts == pathPoints(SplitSpace(OrEmpty(path.paths)), 0, <<>>, bbox)
  IN IF Len(pts) > 0
       THEN <<[points |-> pts, isClosed |-> SameX(pts[1], pts[Len(pts)])]>>
       ELSE <<>>

convertSymbolToKiCad(symbol) ==
  [info |-> symbol.info,
   pins |-> FlatMap(convertPin, symbol.pins, symbol.bbox),
   rectangles |-> FlatMap(convertRectangle, symbol.rectangles, symbol.bbox),
   circles |-> FlatMap(convertCircle, symbol.circles, symbol.bbox)
               \o FlatMap(convertEllipse, symbol.ellipses, symbol.bbox),
   arcs |-> FlatMap(convertArc, symbol.arcs, symbol.bbox),
   polygons |-> FlatMap(polylineToPolygon, symbol.polylines, symbol.bbox)
                \o FlatMap(polygonToPolygon, symbol.polygons, symbol.bbox)
                \o FlatMap(pathToPolygon, symbol.paths, symbol.bbox)]

\* ------------------------------------------------------------ symbol exporter
\* The optional property fields, stacked below Value at a fixed increment.
RECURSIVE optionalProperties(_, _, _)
optionalProperties(fields, yLow, offsetY) ==
  IF fields = <<>> THEN <<>>
  ELSE LET f == Head(fields)
       IN IF f.value = ""
            THEN optionalProperties(Tail(fields), yLow, offsetY)
            ELSE <<[key |-> f.key, value |-> f.value, id |-> f.id,
                    posY |-> toFixed2(yLow - (offsetY + 2540)), hide |-> TRUE]>>
                 \o optionalProperties(Tail(fields), yLow, offsetY + 2540)

\* Reading .toFixed of an undefined coordinate throws.
polygonRaises(poly) == \E i \in 1..Len(poly.points) : ~poly.points[i].defined

exportSymbolPolygon(poly, arg) ==
  LET fmt(p) == [x |-> toFixed2(p.x), y |-> toFixed2(p.y)]
  IN <<[kind |-> "polyline", pts |-> MapSeq(fmt, poly.points),
        fill |-> IF poly.isClosed THEN "background" ELSE "none"]>>

exportSymbolRectangle(rect, arg) ==
  <<[kind |-> "rectangle", startX |-> toFixed2(rect.posX0), startY |-> toFixed2(rect.posY0),
     endX |-> toFixed2(rect.posX1), endY |-> toFixed2(rect.posY1)]>>

exportSymbolCircle(circle, arg) ==
  <<[kind |-> "circle", centerX |-> toFixed2(circle.posX), centerY |-> toFixed2(circle.posY),
     radius |-> toFixed2(circle.radius),
     fill |-> IF circle.background THEN "background" ELSE "none"]>>

exportSymbolArc(arc, arg) ==
  <<[kind |-> "arc", startX |-> toFixed2(arc.startX), startY |-> toFixed2(arc.startY),
     endX |-> toFixed2(arc.endX), endY |-> toFixed2(arc.endY),
     fill |-> IF arc.fill THEN "background" ELSE "none"]>>

exportSymbolPin(pin, arg) ==
  <<[kind |-> "pin", type |-> pin.type, style |-> pin.style,
     posX |-> toFixed2(pin.posX), posY |-> toFixed2(pin.posY),
     orientation |-> pin.orientation, length |-> toFixed2(pin.length),
     name |-> pin.name, number |-> pin.number]>>

\* exportKiCadSymbolLibrary: raised is TRUE when the function throws.
exportKiCadSymbolLibrary(kiSym) ==
  LET posYOf(pin) == pin.posY
      yLow == IF Len(kiSym.pins) > 0 THEN SeqMin(MapSeq(posYOf, kiSym.pins)) ELSE 0
      yHigh == IF Len(kiSym.pins) > 0 THEN SeqMax(MapSeq(posYOf, kiSym.pins)) ELSE 0
      info == kiSym.info
      properties ==
        <<[key |-> "Reference", value |-> OrDefault(info.prefix, "U"), id |-> 0,
           posY |-> toFixed2(yHigh + 5080), hide |-> FALSE],
          [key |-> "Value", value |-> info.name, id |-> 1,
           posY |-> toFixed2(yLow - 5080), hide |-> FALSE]>>
        \o optionalProperties(
             <<[key |-> "Footprint", value |-> info.package, id |-> 2],
               [key |-> "Datasheet", value |-> info.datasheet, id |-> 3],
               [key |-> "Manufacturer", value |-> info.manufacturer, id |-> 4],
               [key |-> "LCSC Part", value |-> info.lcscId, id |-> 5],
               [key |-> "JLC Part", value |-> info.jlcId, id |-> 6]>>,
             yLow, 5080)
  IN IF \E i \in 1..Len(kiSym.polygons) : polygonRaises(kiSym.polygons[i])
       THEN [raised |-> TRUE, symbolId |-> "", properties |-> <<>>,
             graphicItems |-> <<>>, pinItems |-> <<>>]
       ELSE [raised |-> FALSE,
             symbolId |-> sanitizeFields(OrDefault(info.name, "symbol")),
             properties |-> properties,
             graphicItems |-> FlatMap(exportSymbolRectangle, kiSym.rectangles, 0)
                              \o FlatMap(exportSymbolCircle, kiSym.circles, 0)
                              \o FlatMap(exportSymbolArc, kiSym.arcs, 0)
                              \o FlatMap(exportSymbolPolygon, kiSym.polygons, 0),
             pinItems |-> FlatMap(exportSymbolPin, kiSym.pins, 0)]

\* ------------------------------------------------------------ inputs
SeqsUpTo(S, n) == UNION {[1..k -> S] : k \in 0..n}

\* A pin line: settings ^^ graphic ^^ lead path ^^ name ^^ number ^^ dot ^^ clock
PinLine(rotation, dot, clock) ==
  <<<<"P", "show", "1", "1", "4", "3", rotation, "gge7", "0">>,
    <<"3", "3">>,
    <<"M 0 0 h 10", "#880000">>,
    <<"1", "5", "3", "0", "VCC 3V3", "start", "", "7pt">>,
    <<"1", "4", "3", "0", "1", "end", "", "7pt">>,
    <<dot, "4", "3">>,
    <<clock, "M 0 0">>>>

PolyLine(designator, points, fill) ==
  <<<<designator, points, "#880000", "1", "0", fill, "gge9", "0">>>>

\* The symbol lines shape lists are built from; "T" (a text) is a designator
\* the parser does not know.
SymbolLines ==
  {PinLine("0", dot, clock) : dot \in {"0", "1"}, clock \in {"0", "1"}}
  \cup {<<<<"P", "show", "0", "2">>>>,
        <<<<"R", "1", "2", "", "", "4", "3", "#880000", "1", "0", "none", "gge8", "0">>>>,
        PolyLine("PL", "1 2 3 4", "none"),
        PolyLine("PG", "1 2 3 4 5 6", "none"),
        <<<<"PT", "M 1 2 L 3 4 Z", "#880000", "1", "0", "none", "gge10", "0">>>>,
        <<<<"C", "4", "3", "2", "#880000", "1", "0", "none", "gge11", "0">>>>,
        <<<<"E", "4", "3", "2", "1", "#880000", "1", "0", "none", "gge12", "0">>>>,
        <<<<"A", "M 0 0 A 2 2 0 0 1 4 0", "", "#880000", "1", "0", "none", "gge13", "0">>>>,
        <<<<"T", "L", "4", "3", "0", "#0000FF", "", "9pt", "", "", "", "comment", "NE 555", "1", "start", "gge14", "0">>>>}

\* Single lines explored in more detail: polylines and polygons by point
\* count and fill, paths, ellipses that are circles, arcs that are not.
SymbolDetailLines ==
  {PolyLine(d, pts, fill) :
     d \in {"PL", "PG"},
     pts \in {"", "1 2", "1 2 3 4", "1 2 3 4 5 6", "0 0 4 0 4 4"},
     fill \in {"none", "NONE", "#FF0000", ""}}
  \cup {<<<<"PL">>>>, <<<<"PG">>>>, <<<<"PT">>>>,
        <<<<"PT", "Z">>>>, <<<<"PT", "M 1 2 L 3 4">>>>, <<<<"PT", "M 1 2 Z">>>>,
        <<<<"E", "4", "3", "2", "2">>>>,
        <<<<"A", "M 0 0 L 4 0">>>>, <<<<"A">>>>,
        <<<<"X9", "1 2 3 4">>>>}
  \cup {PinLine(rotation, "0", "0") :
          rotation \in {"90", "180", "270", "360", "450", "-90", "-180", "-270"}}

PadLine(shape, width, height, holeRadius, points, holeLength) ==
  <<"PAD", shape, "6", "5", width, height, "1", "", "1", holeRadius, points,
    "0", "gge5", holeLength, "", "Y", "0">>

SvgNodeLine(rawJson) == <<"SVGNODE", rawJson, "gge20">>

Model3dJson ==
  "{\"attrs\":{\"uuid\":\"u1\",\"title\":\"SOT-23\",\"c_origin\":\"6,5\",\"z\":\"2\",\"c_rotation\":\"0,0,90\"}}"

\* The footprint lines shape lists are built from; "SOLIDREGION" is a
\* designator the parser does not know.
FootprintLines ==
  {PadLine("RECT", "4", "2", "0", "5 4 7 4 7 6 5 6", "0"),
   PadLine("ELLIPSE", "6", "6", "1", "", "0"),
   <<"PAD">>,
   <<"TRACK", "1", "3", "", "0 0 4 0 4 4", "gge1", "0">>,
   <<"HOLE", "4", "3", "1", "gge2", "0">>,
   <<"VIA", "4", "3", "2", "", "1", "gge3", "0">>,
   <<"CIRCLE", "4", "3", "2", "1", "3", "gge4", "0">>,
   <<"ARC", "1", "3", "", "M 0 0 A 2 2 0 0 1 4 0", "", "gge6", "0">>,
   <<"ARC", "1", "3", "", "", "", "gge6", "0">>,
   <<"RECT", "1", "2", "4", "3", "1", "gge7", "3", "0">>,
   <<"TEXT", "N", "4", "3", "1", "0", "", "4", "", "5", "REF", "", "", "gge8", "0">>,
   SvgNodeLine(Model3dJson),
   SvgNodeLine("{\"attrs\":"),
   SvgNodeLine("{\"gId\":\"g1\"}"),
   SvgNodeLine("{\"attrs\":5}"),
   <<"SOLIDREGION", "100", "", "M 1 2 L 3 4 Z", "cutout", "gge9">>}

\* Single lines explored in more detail: pads by shape, outline, hole and
\* size; arcs by path; 3D metadata by payload.
PadDetailLines ==
  {PadLine(shape, width, height, holeRadius, points, holeLength) :
     shape \in {"ELLIPSE", "RECT", "OVAL", "POLYGON", "ROUNDRECT"},
     width \in {"3", "5", "8"},
     height \in {"3", "6"},
     holeRadius \in {"0", "1", "2"},
     points \in {"", "5 4 7 4 7 6 5 6"},
     holeLength \in {"0", "1", "3", "6"}}

\* A pad on the given layer with the given hole radius.
LayerPadLine(layerId, holeRadius) ==
  <<"PAD", "RECT", "6", "5", "4", "2", layerId, "", "1", holeRadius, "",
    "0", "gge5", "0", "", "Y", "0">>

PadLayerIds == {"1", "2", "11", "12", ""}
PadHoleRadii == {"0", "1", "-1", "x", ""}

\* A pad with the given number.
NumberedPadLine(number) == <<"PAD", "RECT", "6", "5", "4", "2", "1", "", number, "0">>

PadNumbers ==
  {"12", "A1", "A(12)", "(3)B", "A(1)(2)", "A((1))", "1)(2", ")A(", "A(1", "1)", "()"}

FootprintDetailLines ==
  PadDetailLines
  \cup {NumberedPadLine(number) : number \in PadNumbers}
  \cup {LayerPadLine(layerId, holeRadius) :
          layerId \in PadLayerIds, holeRadius \in PadHoleRadii}
  \cup {<<"ARC", "1", "3", "", "M2,2 A1,1 0 1 0 4,2", "", "gge6", "0">>,
        <<"ARC", "1", "3", "", "M2,2 A1,1 0 1 0 4,2", "", "gge6", "0">>,
        <<"ARC", "1", "3", "", "M 4 4 A", "", "gge6", "0">>,
        <<"ARC", "1", "3", "", "M 0 0 L 4 0", "", "gge6", "0">>,
        <<"ARC">>,
        <<"SVGNODE">>,
        SvgNodeLine("{\"attrs\":{\"uuid\":\"u2\"}}"),
        SvgNodeLine("{\"attrs\":null}"), SvgNodeLine("null"),
        <<"TRACK">>, <<"TEXT">>}

\* The lines of the payloads converted with both options set.
BothSymbolLines ==
  {PinLine("0", "1", "0"), PolyLine("PL", "1 2 3 4", "none"),
   <<<<"T", "L", "4", "3", "0", "#0000FF", "", "9pt", "", "", "", "comment", "NE 555", "1", "start", "gge14", "0">>>>}

BothFootprintLines ==
  {PadLine("RECT", "4", "2", "0", "5 4 7 4 7 6 5 6", "0"),
   <<"ARC", "1", "3", "", "", "", "gge6", "0">>,
   <<"SOLIDREGION", "100", "", "M 1 2 L 3 4 Z", "cutout", "gge9">>}

SymbolHead ==
  [x |-> "2", y |-> "1",
   c_para |-> [name |-> "NE 555", pre |-> "U?", package |-> "SOT-23",
               BOM_Manufacturer |-> "TI", BOM_JLCPCB_Part_Class |-> Undefined]]

EmptyHead ==
  [x |-> Undefined, y |-> Undefined,
   c_para |-> [name |-> Undefined, pre |-> Undefined, package |-> Undefined,
               BOM_Manufacturer |-> Undefined, BOM_JLCPCB_Part_Class |-> Undefined]]

FootprintHead ==
  [x |-> "2", y |-> "1", c_para |-> [package |-> "SOT-23", model3d |-> "SOT-23"]]

EmptyFootprintHead ==
  [x |-> Undefined, y |-> Undefined,
   c_para |-> [package |-> Undefined, model3d |-> Undefined]]

\* A CAD payload, as fetchCadData returns it.
CadPayload(smt, title, symHead, symShapes, fpHead, fpShapes) ==
  [SMT |-> smt,
   lcsc |-> [url |-> "https://lcsc.com/p/C1", number |-> "C1"],
   dataStr |-> [head |-> symHead, shape |-> symShapes],
   packageDetail |-> [title |-> title,
                      dataStr |-> [head |-> fpHead, shape |-> fpShapes]]]

OnlySymbol == [symbol |-> TRUE, footprint |-> FALSE]
OnlyFootprint == [symbol |-> FALSE, footprint |-> TRUE]
Both == [symbol |-> TRUE, footprint |-> TRUE]
Neither == [symbol |-> FALSE, footprint |-> FALSE]

\* The calls of convertEasyedaCadToKicad that are explored: <<payload, options>>.
Calls ==
  {<<CadPayload(TRUE, "SOT-23", SymbolHead, ss, FootprintHead, <<>>), OnlySymbol>> :
     ss \in SeqsUpTo(SymbolLines, MaxShapes)}
  \cup {<<CadPayload(TRUE, "SOT-23", h, <<l>>, FootprintHead, <<>>), OnlySymbol>> :
     l \in SymbolDetailLines, h \in {SymbolHead, EmptyHead}}
  \cup {<<CadPayload(smt, "SOT-23", SymbolHead, <<>>, FootprintHead, fs), OnlyFootprint>> :
     fs \in SeqsUpTo(FootprintLines, MaxShapes), smt \in BOOLEAN}
  \cup {<<CadPayload(TRUE, "HDR-TH_2P-P2.54", SymbolHead, <<>>, h, <<l>>), OnlyFootprint>> :
     l \in FootprintDetailLines, h \in {FootprintHead, EmptyFootprintHead}}
  \cup {<<CadPayload(TRUE, "SOT-23", SymbolHead, ss, FootprintHead, fs), o>> :
     ss \in SeqsUpTo(BothSymbolLines, MaxShapes),
     fs \in SeqsUpTo(BothFootprintLines, MaxShapes),
     o \in {Both, Neither}}

\* ------------------------------------------------------------ convertEasyedaCadToKicad
EmptyResult == [symbol |-> Null, footprint |-> Null]

\* No call of convertObjToWrl is in progress.
WrlIdle ==
  /\ wrlPc = "idle"
  /\ vertices = <<>>
  /\ linesRead = 0
  /\ wrlShape = Null
  /\ rawWrl = <<>>

CallIds == 1..MaxCalls

NoOptions == [symbol |-> FALSE, footprint |-> FALSE, model3d |-> FALSE]

\* An exportPart call that has not started.
IdleCall ==
  [pc |-> "idle", type |-> "", lcscId |-> "", options |-> NoOptions, individually |-> FALSE,
   kicadFiles |-> Null, modelInfo |-> Null,
   existingLibrary |-> <<>>, mergedLibrary |-> <<>>,
   fetches |-> <<>>, files |-> <<>>, response |-> Null, responses |-> 0,
   warnings |-> <<>>]

\* The service worker has received nothing and the storage is empty.
WorkerIdle ==
  /\ storage = [downloadIndividually |-> "unset", symbolLibrary |-> <<>>]
  /\ calls = [c \in CallIds |-> IdleCall]
  /\ inbox = [c \in CallIds |-> Null]
  /\ faults = 0

\* The popup document before its script has run. Which boxes are checked
\* and whether the button is disabled is what the popup page declares.
ClosedPopup ==
  [currentLcscId |-> "", partNumber |-> "",
   symbol |-> FALSE, footprint |-> FALSE, model3d |-> FALSE, individually |-> FALSE,
   disabled |-> TRUE, status |-> "", isError |-> FALSE,
   opening |-> "closed", settings |-> "closed", preview |-> "hidden"]

\* No popup is open.
PopupIdle ==
  /\ popup = ClosedPopup
  /\ requests = <<>>
  /\ saves = <<>>
  /\ events = 0

TabMessageIds == 1..MaxTabMessages

\* A message that was not sent to the tab.
UnsentMessage ==
  [state |-> "unsent", type |-> "", returned |-> Null, response |-> Null, responses |-> 0]

\* No page is open and no message was sent to a tab.
ContentIdle ==
  /\ page = Null
  /\ tabMessages = [m \in TabMessageIds |-> UnsentMessage]

\* No helper is called directly.
FnIdle ==
  /\ fnPc = "idle"
  /\ fnName = ""
  /\ fnArgs = <<>>
  /\ fnResult = Null

\* No call of convertEasyedaCadToKicad is in progress.
CadIdle ==
  /\ cadData = Null
  /\ options = Neither
  /\ pc = "idle"
  /\ eeSymbol = Null
  /\ kiSymbol = Null
  /\ eeFootprint = Null
  /\ kiFootprint = Null
  /\ result = EmptyResult

Init ==
  /\ \E call \in Calls : cadData = call[1] /\ options = call[2]
  /\ pc = "start"
  /\ eeSymbol = Null
  /\ kiSymbol = Null
  /\ eeFootprint = Null
  /\ kiFootprint = Null
  /\ result = EmptyResult
  /\ WrlIdle
  /\ FnIdle
  /\ ContentIdle
  /\ WorkerIdle
  /\ PopupIdle

ParseSymbol ==
  /\ pc = "start"
  /\ options.symbol
  /\ eeSymbol' = parseEasyedaSymbol(cadData)
  /\ pc' = "symbolParsed"
  /\ UNCHANGED <<cadData, options, kiSymbol, eeFootprint, kiFootprint, result, exceptCad>>

ConvertSymbol ==
  /\ pc = "symbolParsed"
  /\ kiSymbol' = convertSymbolToKiCad(eeSymbol)
  /\ pc' = "symbolConverted"
  /\ UNCHANGED <<cadData, options, eeSymbol, eeFootprint, kiFootprint, result, exceptCad>>

ExportSymbol ==
  /\ pc = "symbolConverted"
  /\ LET content == exportKiCadSymbolLibrary(kiSymbol)
     IN IF content.raised
          THEN pc' = "raised" /\ UNCHANGED result
          ELSE /\ pc' = "symbolDone"
               /\ result' = [result EXCEPT !.symbol =
                    [name |-> sanitizeFields(OrDefault(eeSymbol.info.name, "symbol")),
                     content |-> content]]
  /\ UNCHANGED <<cadData, options, eeSymbol, kiSymbol, eeFootprint, kiFootprint, exceptCad>>

ParseFootprint ==
  /\ \/ pc = "symbolDone"
     \/ pc = "start" /\ ~options.symbol
  /\ options.footprint
  /\ eeFootprint' = parseEasyedaFootprint(cadData)
  /\ pc' = "footprintParsed"
  /\ UNCHANGED <<cadData, options, eeSymbol, kiSymbol, kiFootprint, result, exceptCad>>

\* A variant that writes the converted pads back into the parsed footprint.
ConvertFootprint_InPlace ==
  /\ pc = "footprintParsed"
  /\ kiFootprint' = convertFootprintToKiCad(eeFootprint)
  /\ eeFootprint' = [eeFootprint EXCEPT !.pads = convertFootprintToKiCad(eeFootprint).pads]
  /\ pc' = "footprintConverted"
  /\ UNCHANGED <<cadData, options, eeSymbol, kiSymbol, result, exceptCad>>

ConvertFootprint ==
  /\ pc = "footprintParsed"
  /\ kiFootprint' = convertFootprintToKiCad(eeFootprint)
  /\ pc' = "footprintConverted"
  /\ UNCHANGED <<cadData, options, eeSymbol, kiSymbol, eeFootprint, result, exceptCad>>

ExportFootprint ==
  /\ pc = "footprintConverted"
  /\ LET content == exportKiCadFootprint(kiFootprint, "${KIPRJMOD}")
     IN IF content.raised
          THEN pc' = "raised" /\ UNCHANGED result
          ELSE /\ pc' = "footprintDone"
               /\ result' = [result EXCEPT !.footprint =
                    [name |-> OrDefault(eeFootprint.info.name, "footprint"),
                     content |-> content]]
  /\ UNCHANGED <<cadData, options, eeSymbol, kiSymbol, eeFootprint, kiFootprint, exceptCad>>

Return ==
  /\ \/ pc = "footprintDone"
     \/ pc = "symbolDone" /\ ~options.footprint
     \/ pc = "start" /\ ~options.symbol /\ ~options.footprint
  /\ pc' = "returned"
  /\ UNCHANGED <<cadData, options, eeSymbol, kiSymbol, eeFootprint, kiFootprint, result, exceptCad>>

Next ==
  \/ ParseSymbol
  \/ ConvertSymbol
  \/ ExportSymbol
  \/ ParseFootprint
  \/ ConvertFootprint
  \/ ExportFootprint
  \/ Return

Spec == Init /\ [][Next]_vars


\* ------------------------------------------------------------ convertObjToWrl
\* (Number(value) / 2.54).toFixed(4) on a coordinate given in hundredths; the
\* result is in ten-thousandths.
objToWrlCoord(value) ==
  IF value >= 0 THEN (value * 10000 + 127) \div 254
  ELSE 0 - ((127 - value * 10000) \div 254)

\* The vertex list: every "v x y z" line converted and joined.
objVertex(line) == <<objToWrlCoord(line[1]), objToWrlCoord(line[2]), objToWrlCoord(line[3])>>

\* parseInt(part.split("/")[0], 10) on the face tokens of the inputs.
parseFaceToken(part) ==
  CASE part = "1" -> 1
    [] part = "2" -> 2
    [] part = "3" -> 3
    [] part = "1/1" -> 1
    [] part = "2/2/2" -> 2
    [] part = "3/3" -> 3
    [] part = "3//1" -> 3
    [] OTHER -> NaN

\* The materials of the newmtl blocks, by id; {} for an unknown id.
objMaterial(materialId) ==
  CASE materialId = "mat1" -> [diffuse |-> <<"0.8", "0.1", "0.1">>, specular |-> <<"1", "1", "1">>]
    [] OTHER -> [diffuse |-> <<>>, specular |-> <<>>]

\* The locals of one iteration of the shape loop, before its first face line;
\* faces are the face lines of the segment read so far.
newShape(materialId) ==
  [material |-> objMaterial(materialId), faces |-> <<>>, coordIndex |-> <<>>,
   points |-> <<>>, linkMap |-> <<>>, indexCounter |-> 0]

RECURSIVE faceIndices_NoReuse(_, _, _)
\* A variant that gives every reference a fresh local index.
faceIndices_NoReuse(sh, faceIndex, face) ==
  IF face = <<>>
    THEN [sh EXCEPT !.coordIndex = Append(@, Append(faceIndex, -1))]
  ELSE faceIndices_NoReuse(
         [sh EXCEPT !.linkMap = (Head(face) :> sh.indexCounter) @@ @,
                    !.points = Append(@, vertices[Head(face)]),
                    !.indexCounter = @ + 1],
         Append(faceIndex, sh.indexCounter), Tail(face))

RECURSIVE faceIndices(_, _, _)
\* The loop over the indices of one face: sh holds the locals, faceIndex the
\* local indices pushed so far.
faceIndices(sh, faceIndex, face) ==
  IF face = <<>>
    THEN [sh EXCEPT !.coordIndex = Append(@, Append(faceIndex, -1))]
  ELSE LET idx == Head(face)
       IN IF idx \notin DOMAIN sh.linkMap
            THEN faceIndices(
                   [sh EXCEPT !.linkMap = (idx :> sh.indexCounter) @@ @,
                              !.points = Append(@, vertices[idx]),
                              !.indexCounter = @ + 1],
                   Append(faceIndex, sh.indexCounter), Tail(face))
            ELSE faceIndices(sh, Append(faceIndex, sh.linkMap[idx]), Tail(face))

\* A variant that inserts the copy of the last point at the front.
spliceLast_AtFront(points) ==
  IF Len(points) > 0 THEN <<points[Len(points)]>> \o points ELSE points

\* points.splice(points.length - 1, 0, points[points.length - 1])
spliceLast(points) ==
  IF Len(points) > 0
    THEN SubSeq(points, 1, Len(points) - 1)
           \o <<points[Len(points)]>> \o <<points[Len(points)]>>
    ELSE points

\* The Shape node appended to rawWrl.
shapeNode(sh) ==
  [diffuseColor |-> sh.material.diffuse, specularColor |-> sh.material.specular,
   point |-> spliceLast(sh.points), coordIndex |-> sh.coordIndex]

\* ------------------------------------------------------------ OBJ inputs
\* The "v" lines of the OBJ files, coordinates in hundredths of a unit.
ObjVertexLines ==
  {<<<<0, 0, 0>>, <<254, 0, 0>>, <<254, 508, -127>>>>,
   <<<<100, 0, 0>>, <<100, 0, 0>>, <<0, 300, 5>>>>}

\* The "f" lines of the OBJ files, split into their tokens.
ObjFaceLines ==
  {<<"1", "2", "3">>, <<"3/3", "2/2/2", "1/1">>, <<"2", "3//1", "2">>, <<"3">>, <<"1", "1/1">>}

ObjMaterialIds == {"mat1", "mat9"}

\* ------------------------------------------------------------ convertObjToWrl, step by step
InitWrl ==
  /\ CadIdle
  /\ FnIdle
  /\ ContentIdle
  /\ WorkerIdle
  /\ PopupIdle
  /\ wrlPc = "start"
  /\ vertices \in {MapSeq(objVertex, lines) : lines \in ObjVertexLines}
  /\ linesRead = 0
  /\ wrlShape = Null
  /\ rawWrl = <<>>

\* A face line before the first usemtl: it belongs to no shape and is dropped.
SkipFace ==
  /\ wrlPc = "start"
  /\ linesRead < MaxObjLines
  /\ linesRead' = linesRead + 1
  /\ UNCHANGED <<wrlPc, vertices, wrlShape, rawWrl, exceptWrl>>

\* The head of one iteration of the shape loop: a usemtl segment begins.
StartShape ==
  /\ wrlPc \in {"start", "emitted"}
  /\ linesRead < MaxObjLines
  /\ \E materialId \in ObjMaterialIds : wrlShape' = newShape(materialId)
  /\ linesRead' = linesRead + 1
  /\ wrlPc' = "inShape"
  /\ UNCHANGED <<vertices, rawWrl, exceptWrl>>

\* One face line of the current shape.
AddFace ==
  /\ wrlPc = "inShape"
  /\ linesRead < MaxObjLines
  /\ \E line \in ObjFaceLines :
       LET face == MapSeq(parseFaceToken, line)
       IN wrlShape' = faceIndices([wrlShape EXCEPT !.faces = Append(@, face)], <<>>, face)
  /\ linesRead' = linesRead + 1
  /\ UNCHANGED <<wrlPc, vertices, rawWrl, exceptWrl>>

\* The end of the segment: the last point is duplicated and the Shape emitted.
EmitShape ==
  /\ wrlPc = "inShape"
  /\ rawWrl' = Append(rawWrl, shapeNode(wrlShape))
  /\ wrlPc' = "emitted"
  /\ UNCHANGED <<vertices, linesRead, wrlShape, exceptWrl>>

\* return rawWrl
ReturnWrl ==
  /\ wrlPc \in {"start", "emitted"}
  /\ wrlPc' = "returned"
  /\ UNCHANGED <<vertices, linesRead, wrlShape, rawWrl, exceptWrl>>

NextWrl ==
  \/ SkipFace
  \/ StartShape
  \/ AddFace
  \/ EmitShape
  \/ ReturnWrl

SpecWrl == InitWrl /\ [][NextWrl]_vars

\* ------------------------------------------------------------ properties of the pad export
IsPadClause(clause) == clause.kind = "pad"

\* The footprint was exported: its clauses are in the result.
FootprintExported == result.footprint # Null

\* The pad clauses of the exported footprint, in the order of the pads.
PadClauses == SelectSeq(result.footprint.content.output, IsPadClause)

StandardPadShapes == {"ELLIPSE", "RECT", "OVAL"}

\* The outline points of a pad as the pairs of its points field.
OutlinePairs(points) ==
  CASE points = "5 4 7 4 7 6 5 6" -> <<<<"5", "4">>, <<"7", "4">>, <<"7", "6">>, <<"5", "6">>>>
    [] OTHER -> <<>>

\* C1 as stated: every pad whose outline-points field is non-empty is
\* exported with shape custom, near-zero size and an outline, whatever its
\* declared shape.
C1_OutlineAlwaysCustom ==
  FootprintExported =>
    \A i \in 1..Len(kiFootprint.pads) :
      kiFootprint.pads[i].points # "" =>
        /\ PadClauses[i].shape = "custom"
        /\ PadClauses[i].width = toFixed2(5)
        /\ PadClauses[i].height = toFixed2(5)
        /\ PadClauses[i].hasPolygon

\* C1 amended: a pad whose declared shape is not ELLIPSE, RECT or OVAL
\* (POLYGON included) is exported with shape custom, size 0.005 (printed
\* 0.01), orientation 0 and its outline relative to the pad centre; a pad
\* declared ELLIPSE, RECT or OVAL keeps shape circle, rect or oval, its own
\* size and no outline, even when its outline-points field is non-empty.
C1_CustomByDeclaredShape ==
  FootprintExported =>
    \A i \in 1..Len(kiFootprint.pads) :
      LET pad == kiFootprint.pads[i]
          clause == PadClauses[i]
          pairs == OutlinePairs(pad.points)
      IN /\ pad.shape \notin StandardPadShapes =>
              /\ clause.shape = "custom"
              /\ clause.width = toFixed2(5) /\ clause.height = toFixed2(5)
              /\ clause.orientation = 0
              /\ clause.hasPolygon
              /\ pad.points # "" =>
                   /\ Len(clause.polygon) = Len(pairs)
                   /\ \A k \in 1..Len(pairs) :
                        /\ clause.polygon[k].x = toFixed2(fpToKi(pairs[k][1]) - pad.centerX)
                        /\ clause.polygon[k].y = toFixed2(fpToKi(pairs[k][2]) - pad.centerY)
         /\ pad.shape \in StandardPadShapes =>
              /\ clause.shape = KI_PAD_SHAPE(pad.shape)
              /\ clause.shape # "custom"
              /\ clause.width = toFixed2(Max(pad.width, 10))
              /\ clause.height = toFixed2(Max(pad.height, 10))
              /\ ~clause.hasPolygon

\* A polygon pad with four outline points was exported as a custom pad.
C1_Witness ==
  /\ FootprintExported
  /\ \E i \in 1..Len(kiFootprint.pads) :
       /\ kiFootprint.pads[i].points # ""
       /\ kiFootprint.pads[i].shape = "POLYGON"
       /\ PadClauses[i].shape = "custom"
       /\ Len(PadClauses[i].polygon) = 4

\* The height and width a pad is exported with: its own, at least 0.01, or
\* 0.005 for a custom pad.
ExportedHeight(pad) ==
  IF pad.shape \in StandardPadShapes THEN Max(pad.height, 10) ELSE 5

ExportedWidth(pad) ==
  IF pad.shape \in StandardPadShapes THEN Max(pad.width, 10) ELSE 5

\* The clearance margins: the pad dimension minus max(2r, hole length).
MarginVertical(pad) ==
  ExportedHeight(pad) - Max(pad.holeRadius * 2, pad.holeLength)

MarginHorizontal(pad) ==
  ExportedWidth(pad) - Max(pad.holeRadius * 2, pad.holeLength)

\* C2 as stated: radius > 0 and length 0 give a round drill of diameter 2r;
\* radius > 0 and a nonzero length give an oval drill whose longer dimension
\* lies along the pad axis of larger clearance margin, for every combination,
\* hole lengths shorter than 2r included.
C2_LongerDimensionAlongLargerMargin ==
  FootprintExported =>
    \A i \in 1..Len(kiFootprint.pads) :
      LET pad == kiFootprint.pads[i]
          drill == PadClauses[i].drill
          vertical == MarginVertical(pad)
          horizontal == MarginHorizontal(pad)
      IN /\ (pad.holeRadius > 0 /\ pad.holeLength = 0) =>
              /\ drill.kind = "round"
              /\ drill.sizeX = toFixed2(2 * pad.holeRadius)
         /\ (pad.holeRadius > 0 /\ pad.holeLength # 0) =>
              /\ drill.kind = "oval"
              /\ vertical > horizontal => drill.sizeY >= drill.sizeX
              /\ horizontal > vertical => drill.sizeX >= drill.sizeY

\* C2 amended: radius > 0 and length 0 give a round drill of diameter 2r;
\* radius > 0 and a nonzero length give an oval drill that places the hole
\* length along the pad axis of larger clearance margin (the vertical axis on
\* a tie) and 2r along the other axis, so the longer drill dimension lies
\* along that axis only when the hole length is at least 2r.
C2_HoleLengthAlongLargerMargin ==
  FootprintExported =>
    \A i \in 1..Len(kiFootprint.pads) :
      LET pad == kiFootprint.pads[i]
          drill == PadClauses[i].drill
          vertical == MarginVertical(pad)
          horizontal == MarginHorizontal(pad)
      IN /\ (pad.holeRadius > 0 /\ pad.holeLength = 0) =>
              /\ drill.kind = "round"
              /\ drill.sizeX = toFixed2(2 * pad.holeRadius)
         /\ (pad.holeRadius > 0 /\ pad.holeLength # 0) =>
              /\ drill.kind = "oval"
              /\ vertical >= horizontal =>
                   /\ drill.sizeY = toFixed2(pad.holeLength)
                   /\ drill.sizeX = toFixed2(2 * pad.holeRadius)
              /\ horizontal > vertical =>
                   /\ drill.sizeX = toFixed2(pad.holeLength)
                   /\ drill.sizeY = toFixed2(2 * pad.holeRadius)
              /\ (vertical >= horizontal /\ pad.holeLength >= 2 * pad.holeRadius) =>
                   drill.sizeY >= drill.sizeX
              /\ (horizontal > vertical /\ pad.holeLength >= 2 * pad.holeRadius) =>
                   drill.sizeX >= drill.sizeY

\* A pad with a slot shorter than its hole diameter and unequal margins was
\* exported with an oval drill.
C2_Witness ==
  /\ FootprintExported
  /\ \E i \in 1..Len(kiFootprint.pads) :
       /\ kiFootprint.pads[i].holeRadius > 0
       /\ kiFootprint.pads[i].holeLength # 0
       /\ kiFootprint.pads[i].holeLength < 2 * kiFootprint.pads[i].holeRadius
       /\ MarginVertical(kiFootprint.pads[i]) # MarginHorizontal(kiFootprint.pads[i])
       /\ PadClauses[i].drill.kind = "oval"

\* The drill case a pad clause should carry by hole radius and hole length.
DrillKindByLength(pad) ==
  IF pad.holeLength # 0 THEN "oval"
  ELSE IF pad.holeRadius > 0 THEN "round" ELSE "none"

DrillKindByRadiusAndLength(pad) ==
  IF pad.holeRadius > 0 /\ pad.holeLength # 0 THEN "oval"
  ELSE IF pad.holeRadius > 0 THEN "round" ELSE "none"

\* C3 as stated: a nonzero hole length gives an oval drill; otherwise a hole
\* radius gives a round drill of diameter 2 x radius; otherwise there is no
\* drill clause. The oval case depends only on the hole length.
C3_OvalByLengthOnly ==
  FootprintExported =>
    \A i \in 1..Len(kiFootprint.pads) :
      /\ PadClauses[i].drill.kind = DrillKindByLength(kiFootprint.pads[i])
      /\ PadClauses[i].drill.kind = "round" =>
           PadClauses[i].drill.sizeX = toFixed2(2 * kiFootprint.pads[i].holeRadius)

\* C3 amended: a positive hole radius together with a nonzero hole length
\* gives an oval drill; otherwise a positive hole radius gives a round drill
\* of diameter 2 x radius; otherwise (no positive radius, whatever the hole
\* length) there is no drill clause and the pad is surface-mount.
C3_OvalByRadiusAndLength ==
  FootprintExported =>
    \A i \in 1..Len(kiFootprint.pads) :
      /\ PadClauses[i].drill.kind = DrillKindByRadiusAndLength(kiFootprint.pads[i])
      /\ PadClauses[i].drill.kind = "round" =>
           PadClauses[i].drill.sizeX = toFixed2(2 * kiFootprint.pads[i].holeRadius)
      /\ kiFootprint.pads[i].holeRadius <= 0 =>
           /\ PadClauses[i].drill.kind = "none"
           /\ PadClauses[i].type = "smd"

\* A pad with a hole length but no hole radius was exported.
C3_Witness ==
  /\ FootprintExported
  /\ \E i \in 1..Len(kiFootprint.pads) :
       /\ kiFootprint.pads[i].holeRadius = 0
       /\ kiFootprint.pads[i].holeLength # 0
       /\ PadClauses[i].drill.kind = "none"

\* ------------------------------------------------------------ properties of the mesh conversion
\* The references of the current shape: <<face, position>> pairs.
References ==
  {<<f, k>> \in (1..Len(wrlShape.faces)) \X (1..3) : k <= Len(wrlShape.faces[f])}

\* The source vertex indices the faces of the current shape refer to.
ReferencedVertices == {wrlShape.faces[r[1]][r[2]] : r \in References}

\* The Shape node emitted last.
LastNode == rawWrl[Len(rawWrl)]

\* Two references to one source vertex carry one local index, and references
\* to different source vertices carry different ones.
SameVertexSameIndex ==
  \A r1 \in References, r2 \in References :
    (wrlShape.faces[r1[1]][r1[2]] = wrlShape.faces[r2[1]][r2[2]])
      <=> (wrlShape.coordIndex[r1[1]][r1[2]] = wrlShape.coordIndex[r2[1]][r2[2]])

\* C4 as stated: within one usemtl segment two references to the same source
\* vertex get the same local index, and the emitted point list of the shape
\* contains each referenced vertex exactly once.
C4_EmittedListHasEachVertexOnce ==
  wrlPc = "emitted" =>
    /\ SameVertexSameIndex
    /\ Len(LastNode.point) = Cardinality(ReferencedVertices)
    /\ \A v \in ReferencedVertices : LastNode.point[wrlShape.linkMap[v] + 1] = vertices[v]

\* C4 amended: within one usemtl segment, after any sequence of faces, two
\* references to the same source vertex get the same local index, every face
\* ends with the sentinel -1, and the collected point list contains each
\* referenced vertex exactly once, at its local index; the emitted point list
\* is the collected list followed by one more copy of its last point, so the
\* vertex collected last appears in it twice.
C4_CollectedListHasEachVertexOnce ==
  wrlPc \in {"inShape", "emitted"} =>
    /\ SameVertexSameIndex
    /\ Len(wrlShape.coordIndex) = Len(wrlShape.faces)
    /\ \A f \in 1..Len(wrlShape.faces) :
         /\ Len(wrlShape.coordIndex[f]) = Len(wrlShape.faces[f]) + 1
         /\ wrlShape.coordIndex[f][Len(wrlShape.faces[f]) + 1] = -1
    /\ Len(wrlShape.points) = Cardinality(ReferencedVertices)
    /\ \A r \in References :
         /\ wrlShape.coordIndex[r[1]][r[2]] \in 0..(Len(wrlShape.points) - 1)
         /\ wrlShape.points[wrlShape.coordIndex[r[1]][r[2]] + 1]
              = vertices[wrlShape.faces[r[1]][r[2]]]
    /\ wrlPc = "emitted" =>
         /\ LastNode.coordIndex = wrlShape.coordIndex
         /\ Len(LastNode.point) =
              IF ReferencedVertices = {} THEN 0 ELSE Cardinality(ReferencedVertices) + 1
         /\ SubSeq(LastNode.point, 1, Len(wrlShape.points)) = wrlShape.points

\* Two faces of one segment referring to a common vertex were emitted.
C4_Witness ==
  /\ wrlPc = "emitted"
  /\ Len(wrlShape.faces) >= 2
  /\ \E k \in 1..Len(wrlShape.faces[1]), l \in 1..Len(wrlShape.faces[2]) :
       wrlShape.faces[1][k] = wrlShape.faces[2][l]
  /\ Cardinality(ReferencedVertices) >= 2
  /\ Len(rawWrl) >= 1

\* C5: a shape that collected at least one point is emitted with its last
\* collected point duplicated exactly once (a shape without points is emitted
\* with an empty point list), and every emitted face index k assigned to
\* source vertex v finds the coordinates of v at position k of the emitted
\* point list.
C5_LastPointDuplicatedIndicesKept ==
  wrlPc = "emitted" =>
    LET n == Len(wrlShape.points)
    IN /\ n = 0 => LastNode.point = <<>>
       /\ n > 0 =>
            /\ Len(LastNode.point) = n + 1
            /\ LastNode.point[n + 1] = wrlShape.points[n]
            /\ \A k \in 1..n : LastNode.point[k] = wrlShape.points[k]
       /\ \A r \in References :
            LastNode.point[LastNode.coordIndex[r[1]][r[2]] + 1]
              = vertices[wrlShape.faces[r[1]][r[2]]]

\* A shape with at least two collected points was emitted as the second
\* shape of the file.
C5_Witness ==
  /\ wrlPc = "emitted"
  /\ Len(rawWrl) = 2
  /\ Len(wrlShape.points) >= 2
  /\ Len(LastNode.point) = Len(wrlShape.points) + 1
  /\ wrlShape.points[1] # wrlShape.points[Len(wrlShape.points)]

\* ------------------------------------------------------------ properties of the parsers
KnownSymbolDesignators == {"P", "R", "PL", "PG", "PT", "C", "E", "A"}

KnownFootprintDesignators ==
  {"PAD", "TRACK", "HOLE", "VIA", "CIRCLE", "ARC", "RECT", "TEXT", "SVGNODE"}

\* A list without its i-th element.
RemoveAt(seq, i) == SubSeq(seq, 1, i - 1) \o SubSeq(seq, i + 1, Len(seq))

SymbolShapes == cadData.dataStr.shape

FootprintShapes == cadData.packageDetail.dataStr.shape

\* The payload with the i-th symbol line, or footprint line, taken out.
WithoutSymbolLine(i) ==
  [cadData EXCEPT !.dataStr.shape = RemoveAt(@, i)]

WithoutFootprintLine(i) ==
  [cadData EXCEPT !.packageDetail.dataStr.shape = RemoveAt(@, i)]

\* C6: for both parsers, every shape list and every position, a record whose
\* designator is not recognised leaves the parsed entity as it is parsed from
\* the list without that record: every bucket has the same records in the
\* same order.
C6_UnknownDesignatorSkipped ==
  /\ eeSymbol # Null =>
       \A i \in 1..Len(SymbolShapes) :
         SymbolShapes[i][1][1] \notin KnownSymbolDesignators =>
           eeSymbol = parseEasyedaSymbol(WithoutSymbolLine(i))
  /\ eeFootprint # Null =>
       \A i \in 1..Len(FootprintShapes) :
         FootprintShapes[i][1] \notin KnownFootprintDesignators =>
           eeFootprint = parseEasyedaFootprint(WithoutFootprintLine(i))

\* Both parsers read a list of one known and one unknown record.
C6_Witness ==
  /\ eeSymbol # Null /\ eeFootprint # Null
  /\ Len(SymbolShapes) = 2 /\ Len(FootprintShapes) = 2
  /\ \E i \in 1..2 : SymbolShapes[i][1][1] = "T"
  /\ \E i \in 1..2 : FootprintShapes[i][1] = "SOLIDREGION"
  /\ Len(eeSymbol.pins) = 1
  /\ Len(eeFootprint.pads) = 1

\* JSON.parse of the payload of an SVGNODE record.
SvgNodePayload(line) == JsonParse(Field(Tail(line), 0))

\* An SVGNODE record whose payload is not valid JSON, or is valid JSON
\* without an attrs object.
IsMalformedSvgNode(line) ==
  /\ line[1] = "SVGNODE"
  /\ ~(SvgNodePayload(line).ok /\ SvgNodePayload(line).attrsIsObject)

\* An SVGNODE record whose payload is not valid JSON, or is valid JSON whose
\* attrs member is missing or null.
HasNoAttrsSvgNode(line) ==
  /\ line[1] = "SVGNODE"
  /\ ~(SvgNodePayload(line).ok /\ SvgNodePayload(line).hasAttrs)

IsModelClause(clause) == clause.kind = "model"

C8_NeverRaises == pc # "raised"

\* ------------------------------------------------------------ properties of the symbol converter
\* The number of points the points field of a polyline holds.
PointCount(points) ==
  CASE points = "1 2" -> 1
    [] points = "1 2 3 4" -> 2
    [] points = "1 2 3 4 5 6" -> 3
    [] points = "0 0 4 0 4 4" -> 3
    [] OTHER -> 0

\* The points of the only polygon of the converted symbol; none when the
\* converter dropped it.
OnlyPolygonPoints ==
  IF kiSymbol.polygons = <<>> THEN <<>> ELSE kiSymbol.polygons[1].points

\* C9: a polyline whose points field holds N points yields N+1 output points
\* with first and last equal when it is filled and N output points when it
\* is not; a polygon (PG) is closed like a filled polyline. Stated for the
\* symbols of one polyline or polygon.
C9_PolygonClosure ==
  (/\ kiSymbol # Null
   /\ Len(eeSymbol.polylines) + Len(eeSymbol.polygons) = 1
   /\ eeSymbol.paths = <<>>)
  => LET line == IF Len(eeSymbol.polylines) = 1
                   THEN eeSymbol.polylines[1] ELSE eeSymbol.polygons[1]
         N == PointCount(OrEmpty(line.points))
         out == OnlyPolygonPoints
     IN IF line.fillColor
          THEN /\ Len(out) = N + 1
               /\ out[1] = out[Len(out)]
          ELSE Len(out) = N

\* C10: the converted pin style is inverted_clock when dot and clock markers
\* are visible, inverted for the dot alone, clock for the clock alone and line
\* for neither; no other style is produced.
C10_PinStyle ==
  kiSymbol # Null =>
    /\ Len(kiSymbol.pins) = Len(eeSymbol.pins)
    /\ \A i \in 1..Len(eeSymbol.pins) :
         LET dot == eeSymbol.pins[i].dot.isDisplayed
             clock == eeSymbol.pins[i].clock.isDisplayed
             style == kiSymbol.pins[i].style
         IN /\ (dot /\ clock) => style = "inverted_clock"
            /\ (dot /\ ~clock) => style = "inverted"
            /\ (~dot /\ clock) => style = "clock"
            /\ (~dot /\ ~clock) => style = "line"
            /\ style \in {"inverted_clock", "inverted", "clock", "line"}

\* A symbol with a pin that shows both markers and a pin that shows the clock
\* marker alone was converted.
C10_Witness ==
  /\ kiSymbol # Null
  /\ Len(kiSymbol.pins) = 2
  /\ kiSymbol.pins[1].style = "inverted_clock"
  /\ kiSymbol.pins[2].style = "clock"
  /\ eeSymbol.pins[2].clock.isDisplayed /\ ~eeSymbol.pins[2].dot.isDisplayed

\* C11: for every pin, whatever its vendor rotation (negative values and
\* values of 360 or more included), the converted orientation is the value in
\* [0, 360) congruent to 180 + rotation.
C11_PinOrientationMod360 ==
  kiSymbol # Null =>
    \A i \in 1..Len(eeSymbol.pins) :
      /\ kiSymbol.pins[i].orientation = (180 + eeSymbol.pins[i].settings.rotation) % 360
      /\ kiSymbol.pins[i].orientation \in 0..359

\* ------------------------------------------------------------ properties of the footprint converter
\* C12: when a 3D-model reference is present, each rotation axis value v of
\* the model is converted to exactly (360 - v) mod 360 (here in thousandths
\* of a degree).
C12_ModelRotationMod360 ==
  (kiFootprint # Null /\ kiFootprint.model3d # Null) =>
    /\ kiFootprint.model3d.rotation.x = 1000 * ((360 - eeFootprint.model3d.rotation.x) % 360)
    /\ kiFootprint.model3d.rotation.y = 1000 * ((360 - eeFootprint.model3d.rotation.y) % 360)
    /\ kiFootprint.model3d.rotation.z = 1000 * ((360 - eeFootprint.model3d.rotation.z) % 360)

\* ------------------------------------------------------------ arc geometry
\* The integers whose squares the arc geometry takes the root of.
Roots == 0..400

\* Math.sqrt on the perfect squares, as a table.
SquareRoot == [v \in {k * k : k \in Roots} |-> CHOOSE k \in Roots : k * k = v]

IsSquare(x) == x \in DOMAIN SquareRoot

\* Math.sqrt of a perfect square.
Sqrt(x) == SquareRoot[x]

\* Math.abs
Abs(x) == IF x < 0 THEN 0 - x ELSE x

\* toDegrees(Math.acos(c)) where the cosine is num / den with den > 0:
\* 0, 90 and 180 degrees are the angles with an exact value.
AcosDegrees(num, den) ==
  CASE num = den -> 0
    [] num = 0 -> 90
    [] num = 0 - den -> 180
    [] OTHER -> NaN

\* The last steps of computeArc with the reduction keeping the sign of the
\* extent.
normaliseExtent_KeepSign(angleExtent0, sweepFlag) ==
  IF angleExtent0 = NaN THEN NaN
  ELSE
    LET angleExtent1 ==
          IF ~sweepFlag /\ angleExtent0 > 0 THEN angleExtent0 - 360
          ELSE IF sweepFlag /\ angleExtent0 < 0 THEN angleExtent0 + 360
          ELSE angleExtent0
    IN  JsRem(angleExtent1, 360)

\* The last steps of computeArc: the extent is brought to the side the sweep
\* flag asks for, then reduced modulo 360 with its sign flipped.
normaliseExtent(angleExtent0, sweepFlag) ==
  IF angleExtent0 = NaN THEN NaN
  ELSE
    LET angleExtent1 ==
          IF ~sweepFlag /\ angleExtent0 > 0 THEN angleExtent0 - 360
          ELSE IF sweepFlag /\ angleExtent0 < 0 THEN angleExtent0 + 360
          ELSE angleExtent0
        extentSign == IF angleExtent1 < 0 THEN 1 ELSE 0 - 1
    IN  JsRem(Abs(angleExtent1), 360) * extentSign

\* The one element of a one-element set.
The(S) == CHOOSE v \in S : TRUE

\* computeArc: SVG arc parameters to a centre and a sweep angle, over integer
\* coordinates and radii, in the order of the code: the halved chord, the
\* corrected radii, the centre, the two direction vectors and the extent.
\* The field degenerate tells that both direction vectors have zero length
\* (n = 0); the field exact tells that every root, quotient and arc cosine
\* the code takes has an exact value for this input.
computeArc(startX, startY, radiusX, radiusY, angle, largeArcFlag, sweepFlag, endX, endY) ==
  LET cosPhi == 1
      sinPhi == 0
      Chord ==
        LET dx2 == (startX - endX) \div 2
            dy2 == (startY - endY) \div 2
        IN  [even |-> (startX - endX) % 2 = 0 /\ (startY - endY) % 2 = 0,
             upright |-> JsRem(angle, 360) = 0,
             x1 |-> cosPhi * dx2 + sinPhi * dy2,
             y1 |-> (0 - sinPhi) * dx2 + cosPhi * dy2,
             rx0 |-> Abs(radiusX),
             ry0 |-> Abs(radiusY),
             sx2 |-> (startX + endX) \div 2,
             sy2 |-> (startY + endY) \div 2]
      Radii(c) ==
        LET px1 == c.x1 * c.x1
            py1 == c.y1 * c.y1
            \* radiiCheck > 1, with radiiCheck = px1 / prx + py1 / pry
            excess == px1 * c.ry0 * c.ry0 + py1 * c.rx0 * c.rx0
            tooSmall == c.rx0 # 0 /\ c.ry0 # 0 /\ excess > c.rx0 * c.rx0 * c.ry0 * c.ry0
            scalable == IsSquare(excess) /\ Sqrt(excess) % c.rx0 = 0 /\ Sqrt(excess) % c.ry0 = 0
        IN  [even |-> c.even, upright |-> c.upright, x1 |-> c.x1, y1 |-> c.y1,
             sx2 |-> c.sx2, sy2 |-> c.sy2, px1 |-> px1, py1 |-> py1,
             tooSmall |-> tooSmall,
             scalable |-> tooSmall /\ scalable,
             rx |-> IF tooSmall /\ scalable THEN Sqrt(excess) \div c.ry0 ELSE c.rx0,
             ry |-> IF tooSmall /\ scalable THEN Sqrt(excess) \div c.rx0 ELSE c.ry0]
      Centre(r) ==
        LET prx == r.rx * r.rx
            pry == r.ry * r.ry
            sign == IF largeArcFlag = sweepFlag THEN 0 - 1 ELSE 1
            den == prx * r.py1 + pry * r.px1
            num == prx * pry - prx * r.py1 - pry * r.px1
            positive == den > 0 /\ num > 0
            rooted == IsSquare(num * den) /\ Sqrt(num * den) % den = 0
            coef == IF positive /\ rooted THEN sign * (Sqrt(num * den) \div den) ELSE 0
            \* 0 / 0 and 0 * Infinity are NaN
            cx1 == IF r.ry = 0 THEN NaN ELSE coef * ((r.rx * r.y1) \div r.ry)
            cy1 == IF r.rx # 0 THEN coef * (0 - ((r.ry * r.x1) \div r.rx)) ELSE 0
        IN  [x1 |-> r.x1, y1 |-> r.y1, rx |-> r.rx, ry |-> r.ry,
             cx1 |-> cx1, cy1 |-> cy1,
             cx |-> IF cx1 = NaN THEN NaN ELSE r.sx2 + (cosPhi * cx1 - sinPhi * cy1),
             cy |-> IF cx1 = NaN THEN NaN ELSE r.sy2 + (sinPhi * cx1 + cosPhi * cy1),
             exact |-> /\ r.even /\ r.upright
                       /\ r.ry # 0 => (r.rx * r.y1) % r.ry = 0
                       /\ r.rx # 0 => (r.ry * r.x1) % r.rx = 0
                       /\ r.tooSmall => r.scalable
                       /\ positive => rooted]
      Vectors(c) ==
        \* u and v scaled by rx * ry, which keeps signs, directions and zeroes
        LET unit == (IF c.rx # 0 THEN c.rx ELSE 1) * (IF c.ry # 0 THEN c.ry ELSE 1)
        IN  [cx |-> c.cx, cy |-> c.cy, exact |-> c.exact,
             undefined |-> c.rx # 0 /\ c.cx1 = NaN,
             ux |-> IF c.rx # 0 /\ c.cx1 # NaN THEN (c.x1 - c.cx1) * (unit \div c.rx) ELSE 0,
             uy |-> IF c.ry # 0 THEN (c.y1 - c.cy1) * (unit \div c.ry) ELSE 0,
             vx |-> IF c.rx # 0 /\ c.cx1 # NaN THEN ((0 - c.x1) - c.cx1) * (unit \div c.rx) ELSE 0,
             vy |-> IF c.ry # 0 THEN ((0 - c.y1) - c.cy1) * (unit \div c.ry) ELSE 0]
      Extent(w) ==
        LET nn == (w.ux * w.ux + w.uy * w.uy) * (w.vx * w.vx + w.vy * w.vy)
            p == w.ux * w.vx + w.uy * w.vy
            signAngle == IF w.ux * w.vy - w.uy * w.vx < 0 THEN 0 - 1 ELSE 1
            cosine == IF IsSquare(nn) THEN AcosDegrees(p, Sqrt(nn)) ELSE NaN
            angleExtent0 ==
              IF w.undefined THEN NaN
              ELSE IF nn # 0 THEN (IF cosine = NaN THEN NaN ELSE signAngle * cosine)
              ELSE 719
        IN  [cx |-> w.cx, cy |-> w.cy,
             angleExtent |-> normaliseExtent(angleExtent0, sweepFlag),
             degenerate |-> ~w.undefined /\ nn = 0,
             exact |-> w.exact /\ ((~w.undefined /\ nn # 0) => cosine # NaN)]
  IN  The({Extent(w) : w \in {Vectors(c) : c \in {Centre(r) : r \in {Radii(h) : h \in {Chord}}}}})

\* ------------------------------------------------------------ direct calls of the helpers
\* The values the unit conversions are called with.
ScaleInputs == -12..12

\* The arcs computeArc is called with: start, radii, x-axis rotation, flags and
\* end, each one an input the arc geometry is exact for.
ArcPoints == {<<0, 0>>, <<2, 0>>, <<2, 2>>, <<4, 0>>, <<0, 4>>, <<0 - 2, 2>>}
ArcRadii == {0, 1, 2, 0 - 2}
ArcAngles == {0, 360}
ApplyComputeArc(a) == computeArc(a[1], a[2], a[3], a[4], a[5], a[6], a[7], a[8], a[9])
ArcInputs ==
  {a \in {<<s[1], s[2], rx, ry, angle, largeArc, sweep, e[1], e[2]>> :
            s \in {<<0, 0>>, <<2, 0>>}, rx \in ArcRadii, ry \in ArcRadii, angle \in ArcAngles,
            largeArc \in BOOLEAN, sweep \in BOOLEAN, e \in ArcPoints} :
     ApplyComputeArc(a).exact}

\* The flag fields toBool is called with.
FlagInputs ==
  {"show", "hide", "true", "false", "1", "0", "", "SHOW", "HIDE", "TRUE", "False",
   "Y", "N", "yes", "no", "2", "visible", Undefined}

InitFn ==
  /\ CadIdle
  /\ WrlIdle
  /\ WorkerIdle
  /\ PopupIdle
  /\ ContentIdle
  /\ fnPc = "called"
  /\ fnResult = Null
  /\ \/ fnName = "scale" /\ fnArgs \in {<<v>> : v \in ScaleInputs}
     \/ fnName = "computeArc" /\ fnArgs \in ArcInputs
     \/ fnName = "toBool" /\ fnArgs \in {<<v>> : v \in FlagInputs}

\* pxToMm(v) and convertToMm(v) of one value.
CallScale ==
  /\ fnPc = "called"
  /\ fnName = "scale"
  /\ fnResult' = [symbolScale |-> pxToMm(fnArgs[1]), footprintScale |-> convertToMm(fnArgs[1])]
  /\ fnPc' = "returned"
  /\ UNCHANGED <<fnName, fnArgs, exceptFn>>

\* computeArc of one arc.
CallComputeArc ==
  /\ fnPc = "called"
  /\ fnName = "computeArc"
  /\ fnResult' = ApplyComputeArc(fnArgs)
  /\ fnPc' = "returned"
  /\ UNCHANGED <<fnName, fnArgs, exceptFn>>

\* toBool of one flag field.
CallToBool ==
  /\ fnPc = "called"
  /\ fnName = "toBool"
  /\ fnResult' = [value |-> toBool(fnArgs[1])]
  /\ fnPc' = "returned"
  /\ UNCHANGED <<fnName, fnArgs, exceptFn>>

NextFn ==
  \/ CallToBool
  \/ CallScale
  \/ CallComputeArc

SpecFn == InitFn /\ [][NextFn]_vars

\* ------------------------------------------------------------ properties of the helpers
\* C13 as stated: the symbol scale and the footprint scale are two different
\* constants, so for every nonzero value the two results differ.
C13_ScaleFactorsDiffer ==
  (fnPc = "returned" /\ fnName = "scale" /\ fnArgs[1] # 0) =>
    fnResult.symbolScale # fnResult.footprintScale

\* C13 amended: the symbol scale and the footprint scale are the same fixed
\* linear factor, 0.254 mm per unit (254 um), so for every value the two
\* results are equal.
C13_ScaleFactorsEqual ==
  (fnPc = "returned" /\ fnName = "scale") =>
    /\ fnResult.symbolScale = 254 * fnArgs[1]
    /\ fnResult.footprintScale = 254 * fnArgs[1]
    /\ fnResult.symbolScale = fnResult.footprintScale

\* Both conversions returned for a nonzero value.
C13_Witness ==
  /\ fnPc = "returned" /\ fnName = "scale"
  /\ fnArgs[1] = 7
  /\ fnResult.symbolScale = 1778

\* C14: whenever both direction vectors of an arc have zero length (start equal
\* to end, or both radii zero), computeArc returns and the extent it returns
\* is the sentinel 719, whatever the sweep flag and the large-arc flag.
C14_DegenerateArcReturnsSentinel ==
  (fnPc = "returned" /\ fnName = "computeArc" /\ fnResult.degenerate) =>
    fnResult.angleExtent = 719

\* What the degenerate arcs do return: -359 for either flag.
C14_DegenerateArcReturnsMinus359 ==
  (fnPc = "returned" /\ fnName = "computeArc" /\ fnResult.degenerate) =>
    fnResult.angleExtent = 0 - 359

\* The flag values toBool recognises, in any letter case.
RecognisedFlags == {"show", "hide", "true", "false", "1", "0"}

\* C15: a flag field that is none of the recognised flags falls back to false.
C15_UnrecognisedFlagIsFalse ==
  (fnPc = "returned" /\ fnName = "toBool" /\ toLowerCase(OrEmpty(fnArgs[1])) \notin RecognisedFlags) =>
    fnResult.value = FALSE

\* The number of occurrences of a character.
Occurrences(chars, c) == Cardinality({i \in 1..Len(chars) : chars[i] = c})

\* Every ")" closes an earlier "(" and every "(" is closed.
Balanced(chars) ==
  /\ Occurrences(chars, "(") = Occurrences(chars, ")")
  /\ \A k \in 1..Len(chars) :
       Occurrences(SubSeq(chars, 1, k), ")") <= Occurrences(SubSeq(chars, 1, k), "(")

\* The parenthesised portions of a text: what stands between a "(" and the
\* ")" that closes it.
ParenthesisedPortions(chars) ==
  {SubSeq(chars, i + 1, j - 1) : <<i, j>> \in
     {ij \in (1..Len(chars)) \X (1..Len(chars)) :
        /\ ij[1] < ij[2]
        /\ chars[ij[1]] = "(" /\ chars[ij[2]] = ")"
        /\ Balanced(SubSeq(chars, ij[1] + 1, ij[2] - 1))}}

\* C16 as stated: a pad number that contains parentheses is exported as
\* exactly its parenthesised portion, and a pad number without parentheses is
\* exported unchanged.
C16_ParenthesisedPortionExported ==
  FootprintExported =>
    \A i \in 1..Len(kiFootprint.pads) :
      LET chars == Characters(kiFootprint.pads[i].number)
      IN IF Occurrences(chars, "(") > 0 /\ Occurrences(chars, ")") > 0
           THEN Characters(PadClauses[i].number) \in ParenthesisedPortions(chars)
           ELSE PadClauses[i].number = kiFootprint.pads[i].number

\* C16 amended: a pad number that contains both "(" and ")" is exported as
\* the text after its first "(" up to the next parenthesis of either kind
\* (the end of the number if there is none): the parenthesised portion when
\* the first "(" is closed before another one opens ("A(12)" gives "12"),
\* the empty text for "A((1))" and for ")A(". Every other pad number is
\* exported unchanged.
C16_TextAfterFirstOpenExported ==
  FootprintExported =>
    \A i \in 1..Len(kiFootprint.pads) :
      LET number == kiFootprint.pads[i].number
          chars == Characters(number)
          exported == Characters(PadClauses[i].number)
          open == IndexOf(chars, "(")
      IN IF Occurrences(chars, "(") > 0 /\ Occurrences(chars, ")") > 0
           THEN /\ \E stop \in (open + 1)..(Len(chars) + 1) :
                     /\ exported = SubSeq(chars, open + 1, stop - 1)
                     /\ stop <= Len(chars) => chars[stop] \in {"(", ")"}
                     /\ \A k \in (open + 1)..(stop - 1) : chars[k] \notin {"(", ")"}
                /\ number = "A(12)" => PadClauses[i].number = "12"
                /\ number = "A((1))" => PadClauses[i].number = ""
                /\ number = ")A(" => PadClauses[i].number = ""
           ELSE PadClauses[i].number = number

\* A pad numbered "A(12)" was exported with the number "12".
C16_Witness ==
  /\ FootprintExported
  /\ \E i \in 1..Len(kiFootprint.pads) :
       /\ kiFootprint.pads[i].number = "A(12)"
       /\ PadClauses[i].number = "12"

\* C17: no stage changes what an earlier stage produced. In every step the
\* CAD payload stays as it is, and a parsed or converted entity, once it
\* exists, stays as it is in every field, through conversion and export.
C17_StagesDoNotMutate ==
  [][/\ cadData' = cadData
     /\ eeSymbol # Null => eeSymbol' = eeSymbol
     /\ kiSymbol # Null => kiSymbol' = kiSymbol
     /\ eeFootprint # Null => eeFootprint' = eeFootprint
     /\ kiFootprint # Null => kiFootprint' = kiFootprint]_vars

\* The whole conversion returned: the parsed footprint, with a pad that the
\* conversion scaled, still is what the parser makes of the payload, and the
\* converted footprint still is what the converter makes of the parsed one.
C17_Witness ==
  /\ pc = "returned"
  /\ FootprintExported
  /\ Len(eeFootprint.pads) > 0
  /\ kiFootprint.pads[1].width # eeFootprint.pads[1].width
  /\ eeFootprint = parseEasyedaFootprint(cadData)
  /\ kiFootprint = convertFootprintToKiCad(eeFootprint)

\* ------------------------------------------------------------ service worker
DEFAULT_LIBRARY_DIR == "easyEDADownloader"

\* buildLibraryPaths: the library paths below the Downloads directory.
buildLibraryPaths ==
  [symbolFile |-> DEFAULT_LIBRARY_DIR \o "/" \o DEFAULT_LIBRARY_DIR \o ".kicad_sym",
   footprintDir |-> DEFAULT_LIBRARY_DIR \o "/" \o DEFAULT_LIBRARY_DIR \o ".pretty",
   modelDir |-> DEFAULT_LIBRARY_DIR \o "/" \o DEFAULT_LIBRARY_DIR \o ".3dshapes"]

\* The text of a symbol library file is the sequence of its symbol blocks;
\* the empty text has none. exportKiCadSymbolLibrary writes one block.
LibraryText(content) == <<content>>

\* extractSymbolBlock: from the first symbol to the closing of the library;
\* no block (null) is the empty sequence.
extractSymbolBlock(kicadLibraryText) == kicadLibraryText

\* existingLibrary.includes(`(symbol "${symbolId}"`): the text is in the
\* library where a symbol or the unit of a symbol has that id.
includesSymbol(existingLibrary, symbolId) ==
  \E i \in 1..Len(existingLibrary) :
    \/ existingLibrary[i].symbolId = symbolId
    \/ existingLibrary[i].symbolId \o "_0_1" = symbolId

\* A variant that replaces the library by the new block.
mergeSymbolIntoLibrary_Replace(existingLibrary, symbolBlock, symbolId) ==
  IF symbolBlock = <<>> THEN existingLibrary ELSE symbolBlock

\* mergeSymbolIntoLibrary
mergeSymbolIntoLibrary(existingLibrary, symbolBlock, symbolId) ==
  IF symbolBlock = <<>> THEN existingLibrary
  ELSE IF existingLibrary = <<>> THEN symbolBlock
  ELSE IF includesSymbol(existingLibrary, symbolId) THEN existingLibrary
  ELSE existingLibrary \o symbolBlock

RECURSIVE find3dModelInfo(_)
\* find3dModelInfo over the shape lines of the package: the first SVGNODE
\* whose JSON has attrs with a uuid.
find3dModelInfo(shapes) ==
  IF shapes = <<>> THEN Null
  ELSE
    LET line == Head(shapes)
        rawJson == IF Len(line) >= 2 THEN line[2] ELSE Undefined
        parsed == JsonParse(rawJson)
        uuid == OrEmpty(parsed.attrs.uuid)
    IN IF line[1] # "SVGNODE" \/ OrEmpty(rawJson) = "" THEN find3dModelInfo(Tail(shapes))
       ELSE IF parsed.ok /\ parsed.hasAttrs /\ parsed.attrsIsObject /\ uuid # ""
         THEN [uuid |-> uuid, name |-> OrDefault(parsed.attrs.title, uuid)]
       ELSE find3dModelInfo(Tail(shapes))

\* modelInfo.name.replace(/[^\w.-]+/g, "_") on the model names of the inputs.
safeModelName(name) ==
  CASE name = "SOT 23/A" -> "SOT_23_A"
    [] OTHER -> name

\* convertEasyedaCadToKicad as one call: parse, convert and export of the
\* symbol and of the footprint that were asked for; raised when a stage throws.
convertEasyedaCadToKicad(cad, opts) ==
  LET eeSym == parseEasyedaSymbol(cad)
      symbolContent == exportKiCadSymbolLibrary(convertSymbolToKiCad(eeSym))
      eeFp == parseEasyedaFootprint(cad)
      footprintContent == exportKiCadFootprint(convertFootprintToKiCad(eeFp), "${KIPRJMOD}")
  IN [raised |-> \/ opts.symbol /\ symbolContent.raised
                 \/ opts.footprint /\ footprintContent.raised,
      symbol |-> IF opts.symbol
                   THEN [name |-> sanitizeFields(OrDefault(eeSym.info.name, "symbol")),
                         content |-> symbolContent]
                   ELSE Null,
      footprint |-> IF opts.footprint
                      THEN [name |-> OrDefault(eeFp.info.name, "footprint"),
                            content |-> footprintContent]
                      ELSE Null]

\* ------------------------------------------------------------ the parts of the EasyEDA API
OpAmpHead ==
  [x |-> "2", y |-> "1",
   c_para |-> [name |-> "LM358", pre |-> "U?", package |-> "DIP/8",
               BOM_Manufacturer |-> "TI", BOM_JLCPCB_Part_Class |-> Undefined]]

SlashFootprintHead ==
  [x |-> "2", y |-> "1", c_para |-> [package |-> "DIP/8", model3d |-> Undefined]]

\* A component that is named like the unit of another one.
UnitNamedHead ==
  [x |-> "2", y |-> "1",
   c_para |-> [name |-> "LM358_0_1", pre |-> "U?", package |-> "DIP-8",
               BOM_Manufacturer |-> "TI", BOM_JLCPCB_Part_Class |-> Undefined]]

PartIds == {"C1", "C2", "C3", "C4"}

\* Parts whose 3D model has a name with a space and a slash (C5), no name
\* (C6), and a package with two 3D models (C7).
ModelPartIds == {"C5", "C6", "C7"}

\* fetchCadData: the payload the API returns for a part. C1 has a 3D model,
\* the package of C2 is named with a "/", the footprint of C3 has an arc
\* whose path has no arc command, the symbol of C4 is named like the unit of
\* the symbol of C2.
CadOf(lcscId) ==
  CASE lcscId = "C1" ->
         CadPayload(TRUE, "SOT-23", SymbolHead, <<PinLine("0", "0", "0")>>, FootprintHead,
                    <<PadLine("RECT", "5", "3", "0", "", "0"), SvgNodeLine(Model3dJson)>>)
    [] lcscId = "C2" ->
         CadPayload(FALSE, "DIP-8-TH_L9.3", OpAmpHead, <<PinLine("180", "0", "0")>>,
                    SlashFootprintHead, <<PadLine("ELLIPSE", "5", "3", "1", "", "0")>>)
    [] lcscId = "C3" ->
         CadPayload(TRUE, "SOT-23", SymbolHead, <<>>, FootprintHead,
                    <<<<"ARC", "1", "3", "", "M 0 0 L 4 0", "", "gge6", "0">>>>)
    [] lcscId = "C4" ->
         CadPayload(FALSE, "DIP-8", UnitNamedHead, <<PinLine("0", "0", "0")>>,
                    FootprintHead, <<>>)
    [] lcscId = "C5" ->
         CadPayload(TRUE, "SOT-23", SymbolHead, <<>>, FootprintHead,
                    <<SvgNodeLine("{\"attrs\":{\"uuid\":\"u3\",\"title\":\"SOT 23/A\"}}")>>)
    [] lcscId = "C6" ->
         CadPayload(TRUE, "SOT-23", SymbolHead, <<>>, FootprintHead,
                    <<SvgNodeLine("{\"attrs\":{\"uuid\":\"u2\"}}")>>)
    [] lcscId = "C7" ->
         CadPayload(TRUE, "SOT-23", SymbolHead, <<>>, FootprintHead,
                    <<SvgNodeLine(Model3dJson),
                      SvgNodeLine("{\"attrs\":{\"uuid\":\"u4\",\"title\":\"TO-92\"}}")>>)

\* What exportPart computes from the payload of each part: the converted
\* files for the options it resolved, and the 3D model of the package.
Conversions ==
  {[lcscId |-> lcscId, opts |-> opts, kicadFiles |-> convertEasyedaCadToKicad(CadOf(lcscId), opts),
    modelInfo |-> find3dModelInfo(CadOf(lcscId).packageDetail.dataStr.shape)] :
     lcscId \in PartIds \cup ModelPartIds, opts \in [symbol : BOOLEAN, footprint : BOOLEAN]}

KicadFilesOf(lcscId, opts) ==
  (CHOOSE conversion \in Conversions :
     conversion.lcscId = lcscId /\ conversion.opts = opts).kicadFiles

ModelInfoOf(lcscId) ==
  (CHOOSE conversion \in Conversions : conversion.lcscId = lcscId).modelInfo

\* ------------------------------------------------------------ exportPart
\* A variant whose promise has no catch handler: nothing is answered.
Rejected_Unanswered(call, message) == [call EXCEPT !.pc = "done"]

\* The promise is rejected: the catch handler of the listener calls
\* sendResponse({ok: false, error}).
Rejected(call, message) ==
  [call EXCEPT !.pc = "done", !.response = [ok |-> FALSE, error |-> message],
               !.responses = @ + 1]

\* The promise is fulfilled: the then handler of the listener calls
\* sendResponse({ok: true}).
Resolved(call) ==
  [call EXCEPT !.pc = "done", !.response = [ok |-> TRUE, error |-> ""],
               !.responses = @ + 1]

\* Where exportPart waits next, from the 3D block on.
ModelStage(call) ==
  IF call.options.model3d /\ ModelInfoOf(call.lcscId) # Null
    THEN "fetchStep" ELSE "done"

\* Where exportPart waits next, from the footprint block on.
FootprintStage(call) ==
  IF call.kicadFiles.footprint # Null THEN "downloadFootprint" ELSE ModelStage(call)

\* Where exportPart waits next, from the symbol block on.
SymbolStage(call) ==
  IF call.kicadFiles.symbol # Null
    THEN IF call.individually THEN "downloadSymbol" ELSE "loadStoredSymbolLibrary"
    ELSE FootprintStage(call)

\* The call runs up to its next await, or to its end.
Enter(call, stage) ==
  IF stage = "done" THEN Resolved(call)
  ELSE IF stage = "fetchStep"
    THEN [call EXCEPT !.pc = stage, !.modelInfo = ModelInfoOf(call.lcscId)]
  ELSE [call EXCEPT !.pc = stage]

\* One file handed to chrome.downloads.download: the pieces of its name, the
\* conflict action, and the symbol library it holds if it is one.
Download(filename, conflictAction, kind, library) ==
  [filename |-> filename, conflictAction |-> conflictAction, kind |-> kind, library |-> library]

\* An option of a message: true, false, or not in the message.
OptionValues == {"true", "false", "absent"}
AbsentOptions == [symbol |-> "absent", footprint |-> "absent", model3d |-> "absent"]

\* A variant that takes an option only when it is true.
resolvedOptions_OnlyTrue(o) ==
  [symbol |-> o.symbol = "true", footprint |-> o.footprint = "true",
   model3d |-> o.model3d = "true"]

\* resolvedOptions: an option is dropped only when it is false.
resolvedOptions(o) ==
  [symbol |-> o.symbol # "false", footprint |-> o.footprint # "false",
   model3d |-> o.model3d # "false"]

\* The EXPORT_PART messages a popup sends; the empty id is a missing id.
ExportOptions == [symbol : OptionValues, footprint : OptionValues, model3d : OptionValues]
ExportMessages ==
  [type : {"EXPORT_PART"}, lcscId : PartIds \cup {""}, options : ExportOptions]
\* The GET_PREVIEW_SVGS messages, and messages of a type the listener does
\* not know.
PreviewMessages ==
  [type : {"GET_PREVIEW_SVGS"}, lcscId : PartIds \cup {""}, options : {AbsentOptions}]
OtherMessages ==
  [type : {"GET_LCSC_ID", ""}, lcscId : {"", "C1"}, options : {AbsentOptions}]
\* The messages of exports that run at the same time.
SymbolMessages ==
  [type : {"EXPORT_PART"}, lcscId : {"C1", "C2", "C4"},
   options : {[symbol |-> "true", footprint |-> "false", model3d |-> "false"]}]
\* The exports of a footprint together with its 3D model.
ModelMessages ==
  [type : {"EXPORT_PART"}, lcscId : ModelPartIds,
   options : {[symbol |-> "false", footprint |-> "true", model3d |-> "true"]}]
\* What the storage holds for the setting: nothing, a boolean, or another value.
StoredSettings == {"unset", "true", "false", "yes"}

InitWorker ==
  /\ CadIdle
  /\ WrlIdle
  /\ FnIdle
  /\ ContentIdle
  /\ PopupIdle
  /\ faults = 0
  /\ calls = [c \in CallIds |-> IdleCall]
  /\ storage \in [downloadIndividually : StoredSettings, symbolLibrary : {<<>>}]
  /\ \/ \E message \in ExportMessages \cup PreviewMessages \cup OtherMessages \cup ModelMessages :
          inbox = [c \in CallIds |-> IF c = 1 THEN message ELSE Null]
     \/ inbox \in [CallIds -> SymbolMessages]

\* The onMessage listener receives EXPORT_PART and calls exportPart, which
\* runs to its first await.
ReceiveExportPart(c) ==
  /\ inbox[c] # Null
  /\ inbox[c].type = "EXPORT_PART"
  /\ calls[c].pc = "idle"
  /\ LET call == [IdleCall EXCEPT !.type = inbox[c].type,
                                  !.lcscId = inbox[c].lcscId,
                                  !.options = resolvedOptions(inbox[c].options)]
     IN calls' = [calls EXCEPT ![c] =
                    IF call.lcscId = ""
                      THEN Rejected(call, "No LCSC part number found on the page.")
                      ELSE [call EXCEPT !.pc = "loadSettings"]]
  /\ inbox' = [inbox EXCEPT ![c] = Null]
  /\ UNCHANGED <<storage, faults, exceptWorker>>

\* The onMessage listener receives GET_PREVIEW_SVGS and calls fetchCadData.
ReceivePreviewSvgs(c) ==
  /\ inbox[c] # Null
  /\ inbox[c].type = "GET_PREVIEW_SVGS"
  /\ calls[c].pc = "idle"
  /\ calls' = [calls EXCEPT ![c] =
                 [IdleCall EXCEPT !.type = inbox[c].type, !.lcscId = inbox[c].lcscId,
                                  !.pc = "fetchPreview"]]
  /\ inbox' = [inbox EXCEPT ![c] = Null]
  /\ UNCHANGED <<storage, faults, exceptWorker>>

\* The onMessage listener receives a message of another type: it returns
\* false and calls nothing.
ReceiveOther(c) ==
  /\ inbox[c] # Null
  /\ inbox[c].type \notin {"EXPORT_PART", "GET_PREVIEW_SVGS"}
  /\ calls[c].pc = "idle"
  /\ calls' = [calls EXCEPT ![c] = [IdleCall EXCEPT !.pc = "ignored"]]
  /\ inbox' = [inbox EXCEPT ![c] = Null]
  /\ UNCHANGED <<storage, faults, exceptWorker>>

\* A request to the browser or the network fails, within the budget.
MayFail(failed) ==
  /\ failed => faults < MaxFaults
  /\ faults' = IF failed THEN faults + 1 ELSE faults

\* loadSettings of the service worker: the stored setting when it is a
\* boolean, the default when it is not or when the storage fails.
loadSettings(store, failed) == ~failed /\ store.downloadIndividually = "true"

\* loadSettings resolves; exportPart checks the options and starts the fetch.
LoadSettings(c) ==
  /\ calls[c].pc = "loadSettings"
  /\ \E failed \in BOOLEAN :
       /\ MayFail(failed)
       /\ LET call == [calls[c] EXCEPT
                         !.individually = loadSettings(storage, failed),
                         !.warnings = IF failed THEN Append(@, "Failed to load settings:")
                                      ELSE @]
              o == call.options
          IN calls' = [calls EXCEPT ![c] =
                         IF ~o.symbol /\ ~o.footprint /\ ~o.model3d
                           THEN Rejected(call, "No download options selected.")
                           ELSE [call EXCEPT !.pc = "fetchCadData"]]
  /\ UNCHANGED <<storage, inbox, exceptWorker>>

\* fetchCadData of a preview settles; the two previews are built, or building
\* them throws.
FetchPreview(c) ==
  /\ calls[c].pc = "fetchPreview"
  /\ \E outcome \in {"ok", "raised", "failed"} :
       /\ MayFail(outcome = "failed")
       /\ LET call == [calls[c] EXCEPT !.fetches = Append(@, "cad")]
          IN calls' = [calls EXCEPT ![c] =
                         CASE outcome = "ok" -> Resolved(call)
                           [] outcome = "raised" -> Rejected(call, "TypeError")
                           [] outcome = "failed" -> Rejected(call, "EasyEDA API error")]
  /\ UNCHANGED <<storage, inbox, exceptWorker>>

\* fetchCadData settles; the payload is converted.
FetchCadData(c) ==
  /\ calls[c].pc = "fetchCadData"
  /\ \E failed \in BOOLEAN :
       /\ MayFail(failed)
       /\ LET call == [calls[c] EXCEPT !.fetches = Append(@, "cad")]
              kicadFiles == KicadFilesOf(call.lcscId,
                              [symbol |-> call.options.symbol, footprint |-> call.options.footprint])
              converted == [call EXCEPT !.kicadFiles = kicadFiles]
          IN calls' = [calls EXCEPT ![c] =
                         IF failed THEN Rejected(call, "EasyEDA API error")
                         ELSE IF kicadFiles.raised THEN Rejected(call, "TypeError")
                         ELSE Enter(converted, SymbolStage(converted))]
  /\ UNCHANGED <<storage, inbox, exceptWorker>>

\* loadStoredSymbolLibrary resolves; the symbol is merged into what was read.
LoadStoredSymbolLibrary(c) ==
  /\ calls[c].pc = "loadStoredSymbolLibrary"
  /\ \E failed \in BOOLEAN :
       /\ MayFail(failed)
       /\ LET symbol == calls[c].kicadFiles.symbol
              symbolBlock == extractSymbolBlock(LibraryText(symbol.content))
              existingLibrary == IF failed THEN <<>> ELSE storage.symbolLibrary
              mergedLibrary ==
                mergeSymbolIntoLibrary(
                  IF existingLibrary # <<>> THEN existingLibrary ELSE LibraryText(symbol.content),
                  symbolBlock, symbol.name)
          IN calls' = [calls EXCEPT ![c].existingLibrary = existingLibrary,
                                    ![c].mergedLibrary = mergedLibrary,
                                    ![c].warnings =
                                      IF failed THEN Append(@, "Failed to load symbol library:")
                                      ELSE @,
                                    ![c].pc = "saveStoredSymbolLibrary"]
  /\ UNCHANGED <<storage, inbox, exceptWorker>>

\* saveStoredSymbolLibrary resolves, whether the library was stored or not.
SaveStoredSymbolLibrary(c) ==
  /\ calls[c].pc = "saveStoredSymbolLibrary"
  /\ \E failed \in BOOLEAN :
       /\ MayFail(failed)
       /\ storage' = IF failed THEN storage
                     ELSE [storage EXCEPT !.symbolLibrary = calls[c].mergedLibrary]
       /\ calls' = [calls EXCEPT ![c].pc = "downloadSymbol",
                                 ![c].warnings =
                                   IF failed THEN Append(@, "Failed to save symbol library:")
                                   ELSE @]
  /\ UNCHANGED <<inbox, exceptWorker>>

\* The download of the symbol file settles.
DownloadSymbol(c) ==
  /\ calls[c].pc = "downloadSymbol"
  /\ \E failed \in BOOLEAN :
       /\ MayFail(failed)
       /\ LET call == calls[c]
              symbol == call.kicadFiles.symbol
              file == IF call.individually
                        THEN Download(<<call.lcscId, "-", symbol.name, ".kicad_sym">>,
                                      "uniquify", "symbol", LibraryText(symbol.content))
                        ELSE Download(<<buildLibraryPaths.symbolFile>>,
                                      "overwrite", "symbol", call.mergedLibrary)
              saved == [call EXCEPT !.files = Append(@, file)]
          IN calls' = [calls EXCEPT ![c] =
                         IF failed THEN Rejected(call, "Download failed.")
                         ELSE Enter(saved, FootprintStage(saved))]
  /\ UNCHANGED <<storage, inbox, exceptWorker>>

\* The download of the footprint file settles.
DownloadFootprint(c) ==
  /\ calls[c].pc = "downloadFootprint"
  /\ \E failed \in BOOLEAN :
       /\ MayFail(failed)
       /\ LET call == calls[c]
              name == call.kicadFiles.footprint.name
              file == IF call.individually
                        THEN Download(<<name, ".kicad_mod">>, "uniquify", "footprint", <<>>)
                        ELSE Download(<<buildLibraryPaths.footprintDir, "/", name, ".kicad_mod">>,
                                      "uniquify", "footprint", <<>>)
              saved == [call EXCEPT !.files = Append(@, file)]
          IN calls' = [calls EXCEPT ![c] =
                         IF failed THEN Rejected(call, "Download failed.")
                         ELSE Enter(saved, ModelStage(saved))]
  /\ UNCHANGED <<storage, inbox, exceptWorker>>

\* The name a 3D file of the call is saved under.
ModelFileName(call, extension) ==
  IF call.individually
    THEN <<safeModelName(call.modelInfo.name), extension>>
    ELSE <<buildLibraryPaths.modelDir, "/", safeModelName(call.modelInfo.name), extension>>

\* How a request for a 3D asset settles.
FetchOutcomes == {"ok", "notOk", "failed"}

\* The request for the STEP file settles.
FetchStep(c) ==
  /\ calls[c].pc = "fetchStep"
  /\ \E outcome \in FetchOutcomes :
       /\ MayFail(outcome # "ok")
       /\ LET call == [calls[c] EXCEPT !.fetches = Append(@, "step")]
          IN calls' = [calls EXCEPT ![c] =
                         CASE outcome = "ok" -> [call EXCEPT !.pc = "downloadStep"]
                           [] outcome = "notOk" ->
                                [call EXCEPT !.pc = "fetchObj",
                                             !.warnings = Append(@, "3D STEP download failed:")]
                           [] outcome = "failed" -> Rejected(call, "Failed to fetch")]
  /\ UNCHANGED <<storage, inbox, exceptWorker>>

\* The download of the STEP file settles.
DownloadStep(c) ==
  /\ calls[c].pc = "downloadStep"
  /\ \E failed \in BOOLEAN :
       /\ MayFail(failed)
       /\ LET call == calls[c]
              file == Download(ModelFileName(call, ".step"), "uniquify", "step", <<>>)
          IN calls' = [calls EXCEPT ![c] =
                         IF failed THEN Rejected(call, "Download failed.")
                         ELSE [call EXCEPT !.files = Append(@, file), !.pc = "fetchObj"]]
  /\ UNCHANGED <<storage, inbox, exceptWorker>>

\* The request for the OBJ file settles.
FetchObj(c) ==
  /\ calls[c].pc = "fetchObj"
  /\ \E outcome \in FetchOutcomes :
       /\ MayFail(outcome # "ok")
       /\ LET call == [calls[c] EXCEPT !.fetches = Append(@, "obj")]
          IN calls' = [calls EXCEPT ![c] =
                         CASE outcome = "ok" -> [call EXCEPT !.pc = "downloadWrl"]
                           [] outcome = "notOk" ->
                                Resolved([call EXCEPT !.warnings =
                                            Append(@, "3D OBJ download failed:")])
                           [] outcome = "failed" -> Rejected(call, "Failed to fetch")]
  /\ UNCHANGED <<storage, inbox, exceptWorker>>

\* The download of the converted mesh settles.
DownloadWrl(c) ==
  /\ calls[c].pc = "downloadWrl"
  /\ \E failed \in BOOLEAN :
       /\ MayFail(failed)
       /\ LET call == calls[c]
              file == Download(ModelFileName(call, ".wrl"), "uniquify", "wrl", <<>>)
          IN calls' = [calls EXCEPT ![c] =
                         IF failed THEN Rejected(call, "Download failed.")
                         ELSE Resolved([call EXCEPT !.files = Append(@, file)])]
  /\ UNCHANGED <<storage, inbox, exceptWorker>>

NextWorker ==
  \/ \E c \in CallIds : ReceiveExportPart(c)
  \/ \E c \in CallIds : ReceivePreviewSvgs(c)
  \/ \E c \in CallIds : ReceiveOther(c)
  \/ \E c \in CallIds : FetchPreview(c)
  \/ \E c \in CallIds : LoadSettings(c)
  \/ \E c \in CallIds : FetchCadData(c)
  \/ \E c \in CallIds : LoadStoredSymbolLibrary(c)
  \/ \E c \in CallIds : SaveStoredSymbolLibrary(c)
  \/ \E c \in CallIds : DownloadSymbol(c)
  \/ \E c \in CallIds : DownloadFootprint(c)
  \/ \E c \in CallIds : FetchStep(c)
  \/ \E c \in CallIds : DownloadStep(c)
  \/ \E c \in CallIds : FetchObj(c)
  \/ \E c \in CallIds : DownloadWrl(c)

SpecWorker == InitWorker /\ [][NextWorker]_vars

\* The steps of the call of one message.
WorkerStep(c) ==
  \/ ReceiveExportPart(c)
  \/ ReceivePreviewSvgs(c)
  \/ ReceiveOther(c)
  \/ FetchPreview(c)
  \/ LoadSettings(c)
  \/ FetchCadData(c)
  \/ LoadStoredSymbolLibrary(c)
  \/ SaveStoredSymbolLibrary(c)
  \/ DownloadSymbol(c)
  \/ DownloadFootprint(c)
  \/ FetchStep(c)
  \/ DownloadStep(c)
  \/ FetchObj(c)
  \/ DownloadWrl(c)

\* The service worker where every message is delivered and every request to
\* the storage, the network and the downloads settles: the event loop then
\* runs the continuation of the call that waits for it.
SpecWorkerSettles == SpecWorker /\ \A c \in CallIds : WF_vars(WorkerStep(c))

\* ------------------------------------------------------------ properties of the service worker
\* The names of the inputs that hold a "/".
NameHasSlash(text) == text \in {"DIP/8", "SOT 23/A", "A/B"}

\* The file name puts the file into a folder below Downloads.
InFolder(filename) ==
  \E i \in 1..Len(filename) :
    \/ filename[i] = "/"
    \/ filename[i] \in {buildLibraryPaths.symbolFile, buildLibraryPaths.footprintDir,
                        buildLibraryPaths.modelDir}
    \/ NameHasSlash(filename[i])

\* The file is where the KiCad library structure puts a file of its kind.
InLibraryStructure(file) ==
  CASE file.kind = "symbol" -> file.filename = <<buildLibraryPaths.symbolFile>>
    [] file.kind = "footprint" ->
         file.filename[1] = buildLibraryPaths.footprintDir /\ file.filename[2] = "/"
    [] file.kind \in {"step", "wrl"} ->
         file.filename[1] = buildLibraryPaths.modelDir /\ file.filename[2] = "/"

\* Library mode: every file of every export is in the library structure.
LibraryModeInLibraryStructure ==
  \A c \in CallIds : \A i \in 1..Len(calls[c].files) :
    ~calls[c].individually => InLibraryStructure(calls[c].files[i])

\* C18: the files of an export are organised by the Download-individually
\* setting. The export takes the setting as enabled only if the storage holds
\* true, and as disabled when it holds false, nothing or another value or when
\* it cannot be loaded; disabled, every file is in the library structure under
\* easyEDADownloader/; enabled, every file is a loose file, its name without a
\* folder.
C18_DownloadOrganisation ==
  \A c \in CallIds :
    /\ calls[c].individually => storage.downloadIndividually = "true"
    /\ \A i \in 1..Len(calls[c].files) :
         IF calls[c].individually
           THEN ~InFolder(calls[c].files[i].filename)
           ELSE InLibraryStructure(calls[c].files[i])

\* The call exported a symbol into the library and was answered {ok: true}.
ExportedSymbolToLibrary(c) ==
  /\ calls[c].pc = "done"
  /\ calls[c].response.ok
  /\ ~calls[c].individually
  /\ calls[c].type = "EXPORT_PART"
  /\ calls[c].kicadFiles.symbol # Null

\* Every message was received and every call has ended.
AllCallsEnded ==
  \A c \in CallIds : inbox[c] = Null /\ calls[c].pc \in {"idle", "ignored", "done"}

\* C19: in library mode, once every exportPart call has completed
\* successfully, with no failed request, however their steps interleaved,
\* the stored symbol library holds the symbol of every exported part.
C19_NoLostSymbol ==
  (AllCallsEnded /\ faults = 0) =>
    \A c \in CallIds :
      ExportedSymbolToLibrary(c) =>
        \E i \in 1..Len(storage.symbolLibrary) :
          storage.symbolLibrary[i].symbolId = calls[c].kicadFiles.symbol.name

\* The library holds a top-level symbol with the id.
HasTopLevelSymbol(library, symbolId) ==
  \E i \in 1..Len(library) : library[i].symbolId = symbolId

\* No top-level symbol id is twice in the library.
NoSymbolTwice(library) ==
  \A i, j \in 1..Len(library) : library[i].symbolId = library[j].symbolId => i = j

\* The call has merged its symbol into the library it read from the storage.
Merged(c) ==
  /\ calls[c].pc \in {"saveStoredSymbolLibrary", "downloadSymbol"}
  /\ ~calls[c].individually
  /\ calls[c].existingLibrary # <<>>

\* C23: mergeSymbolIntoLibrary adds the symbol block of a part to the
\* library if and only if the library holds no top-level symbol with the id
\* of the part: with the symbol present the library is returned unchanged,
\* with the symbol absent the block is appended, and after any sequence of
\* merges no top-level symbol id is twice in the library.
C23_MergeAddsIffAbsent ==
  /\ NoSymbolTwice(storage.symbolLibrary)
  /\ \A c \in CallIds :
       Merged(c) =>
         LET symbol == calls[c].kicadFiles.symbol
             existingLibrary == calls[c].existingLibrary
         IN /\ NoSymbolTwice(calls[c].mergedLibrary)
            /\ calls[c].mergedLibrary =
                 IF HasTopLevelSymbol(existingLibrary, symbol.name)
                   THEN existingLibrary
                   ELSE existingLibrary \o LibraryText(symbol.content)

\* The message waits for the listener.
Waiting(c, types) == inbox[c] # Null /\ inbox[c].type \in types

\* The exportPart call has ended and had no part id, or no option left.
FailedEarly(c) ==
  /\ calls[c].type = "EXPORT_PART"
  /\ calls[c].pc = "done"
  /\ \/ calls[c].lcscId = ""
     \/ ~calls[c].options.symbol /\ ~calls[c].options.footprint /\ ~calls[c].options.model3d

\* C25: exportPart without a part id, or with the three options explicitly
\* false, fails before any fetch, any download and any write of the stored
\* library, and is answered {ok: false} with the error of the check that
\* failed; an option that is not in the message counts as selected.
C25_FailsBeforeAnyEffect ==
  [][\A c \in CallIds :
       /\ (Waiting(c, {"EXPORT_PART"}) /\ inbox'[c] = Null) =>
            /\ calls'[c].options.symbol = (inbox[c].options.symbol # "false")
            /\ calls'[c].options.footprint = (inbox[c].options.footprint # "false")
            /\ calls'[c].options.model3d = (inbox[c].options.model3d # "false")
       /\ FailedEarly(c)' =>
            /\ calls'[c].response =
                 [ok |-> FALSE,
                  error |-> IF calls'[c].lcscId = ""
                              THEN "No LCSC part number found on the page."
                              ELSE "No download options selected."]
            /\ calls'[c].fetches = <<>>
            /\ calls'[c].files = <<>>
            /\ calls'[c].mergedLibrary = <<>>
       /\ (calls[c].pc # "saveStoredSymbolLibrary" /\ calls'[c].pc = calls[c].pc
            /\ \A d \in CallIds \ {c} : calls'[d] = calls[d]) =>
            storage' = storage]_vars

\* An export with a part id was rejected because its three options were false.
C25_Witness ==
  \E c \in CallIds :
    /\ FailedEarly(c)
    /\ calls[c].lcscId # ""
    /\ calls[c].response.error = "No download options selected."

\* The call has requested the asset, and a file of the kind is among its files.
Requested(c, asset) == \E i \in 1..Len(calls[c].fetches) : calls[c].fetches[i] = asset
Saved(c, kind) == \E i \in 1..Len(calls[c].files) : calls[c].files[i].kind = kind
Warned(c, warning) == \E i \in 1..Len(calls[c].warnings) : calls[c].warnings[i] = warning

\* The retrieval of the asset failed in the call, with a response that is
\* not OK or with a request that failed, and nothing else failed.
RetrievalFailed(c, asset, warning) ==
  /\ calls[c].pc = "done"
  /\ faults = 1
  /\ Requested(c, asset)
  /\ \/ Warned(c, warning)
     \/ /\ calls[c].response.error = "Failed to fetch"
        /\ calls[c].fetches[Len(calls[c].fetches)] = asset

\* The symbol and the footprint the export has converted are among its files.
EarlierDownloadsKept(c) ==
  /\ calls[c].kicadFiles.symbol # Null => Saved(c, "symbol")
  /\ calls[c].kicadFiles.footprint # Null => Saved(c, "footprint")

\* C26: in an export with the 3D option, when the retrieval of the STEP
\* file or of the OBJ file fails (response not OK, or failed request) the
\* other asset is still requested and downloaded, the symbol and footprint
\* downloads are kept, and the export is answered {ok: true}.
C26_ModelFailureDoesNotAbort ==
  \A c \in CallIds :
    /\ RetrievalFailed(c, "step", "3D STEP download failed:") =>
         /\ Requested(c, "obj") /\ Saved(c, "wrl")
         /\ EarlierDownloadsKept(c)
         /\ calls[c].response.ok
    /\ RetrievalFailed(c, "obj", "3D OBJ download failed:") =>
         /\ Saved(c, "step")
         /\ EarlierDownloadsKept(c)
         /\ calls[c].response.ok

\* The same for a response that is not OK only: the export goes on.
NotOkResponseDoesNotAbort ==
  \A c \in CallIds :
    /\ (RetrievalFailed(c, "step", "3D STEP download failed:")
           /\ Warned(c, "3D STEP download failed:")) =>
         /\ Requested(c, "obj") /\ Saved(c, "wrl")
         /\ EarlierDownloadsKept(c)
         /\ calls[c].response.ok
    /\ (RetrievalFailed(c, "obj", "3D OBJ download failed:")
           /\ Warned(c, "3D OBJ download failed:")) =>
         /\ Saved(c, "step")
         /\ EarlierDownloadsKept(c)
         /\ calls[c].response.ok

\* The listener has called sendResponse at most once for each message: not
\* at all for a message of another type and while the call is running, once
\* when the call has ended, with {ok: true} and no error or with {ok: false}
\* and the message of the error.
AnsweredOnce ==
  \A c \in CallIds :
    /\ calls[c].pc # "done" => calls[c].responses = 0 /\ calls[c].response = Null
    /\ calls[c].pc = "done" =>
         /\ calls[c].responses = 1
         /\ calls[c].response # Null
         /\ calls[c].response.ok <=> calls[c].response.error = ""

hasSelection(p) == p.symbol \/ p.footprint \/ p.model3d

\* A variant that keeps the button as it is.
updateDownloadEnabled_Keep(p) == p

\* updateDownloadEnabled
updateDownloadEnabled(p) ==
  [p EXCEPT !.disabled = (p.currentLcscId = "") \/ ~hasSelection(p)]

\* setStatus
setStatus(p, message, isError) == [p EXCEPT !.status = message, !.isError = isError]

\* setPartNumber; the empty id is null.
setPartNumber(p, lcscId) ==
  LET known == [p EXCEPT !.currentLcscId = lcscId]
  IN IF lcscId # ""
       THEN [setStatus(updateDownloadEnabled([known EXCEPT !.partNumber = lcscId]), "", FALSE)
               EXCEPT !.preview = "loading"]
       ELSE [setStatus([known EXCEPT !.partNumber = "Not found", !.disabled = TRUE],
                       "No LCSC part number found on this page.", TRUE)
               EXCEPT !.preview = "unavailable"]

\* The popup has just been opened: the script has registered its listeners,
\* asked for the active tab and for the settings.
InitPopup ==
  /\ CadIdle
  /\ WrlIdle
  /\ FnIdle
  /\ ContentIdle
  /\ calls = [c \in CallIds |-> IdleCall]
  /\ inbox = [c \in CallIds |-> Null]
  /\ faults = 0
  /\ storage \in [downloadIndividually : {"unset", "true"}, symbolLibrary : {<<>>}]
  /\ \E symbol \in BOOLEAN, footprint \in BOOLEAN, model3d \in BOOLEAN, disabled \in BOOLEAN :
       popup = [ClosedPopup EXCEPT !.symbol = symbol, !.footprint = footprint,
                                   !.model3d = model3d, !.disabled = disabled,
                                   !.opening = "tabsQuery", !.settings = "loading"]
  /\ requests = <<>>
  /\ saves = <<>>
  /\ events = 0

\* The callback of chrome.tabs.query.
TabsQueried ==
  /\ popup.opening = "tabsQuery"
  /\ \E hasTab \in BOOLEAN :
       popup' = IF hasTab
                  THEN [popup EXCEPT !.opening = "lcscId"]
                  ELSE [setStatus([popup EXCEPT !.partNumber = "Unavailable"],
                                  "No active tab detected.", TRUE)
                          EXCEPT !.opening = "done"]
  /\ UNCHANGED <<storage, requests, saves, events, exceptPopup>>

\* The callback of the GET_LCSC_ID message to the content script.
LcscIdAnswered ==
  /\ popup.opening = "lcscId"
  /\ \E answer \in {"lastError", "", "C1"} :
       popup' = IF answer = "lastError"
                  THEN [setStatus([popup EXCEPT !.partNumber = "Unavailable", !.disabled = TRUE],
                                  "Open a JLCPCB or LCSC product page.", TRUE)
                          EXCEPT !.preview = "unavailable", !.opening = "done"]
                  ELSE [setPartNumber(popup, answer) EXCEPT !.opening = "done"]
  /\ UNCHANGED <<storage, requests, saves, events, exceptPopup>>

\* The callback of the GET_PREVIEW_SVGS message.
PreviewsAnswered ==
  /\ popup.preview = "loading"
  /\ \E shown \in BOOLEAN :
       popup' = [popup EXCEPT !.preview = IF shown THEN "image" ELSE "unavailable"]
  /\ UNCHANGED <<storage, requests, saves, events, exceptPopup>>

\* The callback of chrome.storage.local.get in loadSettings.
SettingsLoaded ==
  /\ popup.settings = "loading"
  /\ \E failed \in BOOLEAN :
       popup' = [popup EXCEPT !.settings = "loaded",
                              !.individually = ~failed /\ storage.downloadIndividually = "true"]
  /\ UNCHANGED <<storage, requests, saves, events, exceptPopup>>

OptionBoxes == {"symbol", "footprint", "model3d"}

\* The user changes one of the three option checkboxes.
ChangeOption(box) ==
  /\ popup.opening # "closed"
  /\ events < MaxEvents
  /\ events' = events + 1
  /\ popup' = updateDownloadEnabled(
                CASE box = "symbol" -> [popup EXCEPT !.symbol = ~@]
                  [] box = "footprint" -> [popup EXCEPT !.footprint = ~@]
                  [] box = "model3d" -> [popup EXCEPT !.model3d = ~@])
  /\ UNCHANGED <<storage, requests, saves, exceptPopup>>

\* The user changes the Download individually checkbox: saveSettings.
ChangeIndividually ==
  /\ popup.opening # "closed"
  /\ events < MaxEvents
  /\ events' = events + 1
  /\ popup' = [popup EXCEPT !.individually = ~@]
  /\ saves' = Append(saves, ~popup.individually)
  /\ UNCHANGED <<storage, requests, exceptPopup>>

\* The callback of chrome.storage.local.set in saveSettings.
SettingsSaved ==
  /\ saves # <<>>
  /\ saves' = Tail(saves)
  /\ \E failed \in BOOLEAN :
       IF failed
         THEN /\ popup' = setStatus(popup, "Failed to save settings.", TRUE)
              /\ UNCHANGED storage
         ELSE /\ storage' = [storage EXCEPT !.downloadIndividually =
                               IF Head(saves) THEN "true" ELSE "false"]
              /\ UNCHANGED popup
  /\ UNCHANGED <<requests, events, exceptPopup>>

\* The user clicks the download button; a disabled button takes no click.
ClickDownload ==
  /\ popup.opening # "closed"
  /\ ~popup.disabled
  /\ events < MaxEvents
  /\ events' = events + 1
  /\ IF popup.currentLcscId = ""
       THEN UNCHANGED <<popup, requests>>
       ELSE IF ~hasSelection(popup)
         THEN /\ popup' = setStatus(popup, "Select at least one download option.", TRUE)
              /\ UNCHANGED requests
         ELSE /\ popup' = setStatus([popup EXCEPT !.disabled = TRUE], "Starting download...", FALSE)
              /\ requests' = Append(requests,
                   [lcscId |-> popup.currentLcscId,
                    options |-> [symbol |-> popup.symbol, footprint |-> popup.footprint,
                                 model3d |-> popup.model3d,
                                 downloadIndividually |-> popup.individually],
                    settings |-> "pending"])
  /\ UNCHANGED <<storage, saves, exceptPopup>>

\* The service worker has received the message: exportPart loads the
\* settings from the storage and organises the files by what it gets.
ExportLoadsSettings(i) ==
  /\ i \in 1..Len(requests)
  /\ requests[i].settings = "pending"
  /\ \E failed \in BOOLEAN :
       requests' = [requests EXCEPT ![i].settings =
                      IF loadSettings(storage, failed) THEN "true" ELSE "false"]
  /\ UNCHANGED <<popup, storage, saves, events, exceptPopup>>

\* The response callback of one EXPORT_PART message: the answer of the
\* export, or no answer from a service worker that could not be reached.
ExportAnswered(i) ==
  /\ i \in 1..Len(requests)
  /\ requests' = RemoveAt(requests, i)
  /\ \E answer \in {"ok", "error", "lastError"} :
       /\ answer # "lastError" => requests[i].settings # "pending"
       /\ popup' = CASE answer = "lastError" ->
                         setStatus(updateDownloadEnabled(popup),
                                   "Download failed. Check the console.", TRUE)
                    [] answer = "ok" ->
                         setStatus(updateDownloadEnabled(popup), "Download started.", FALSE)
                    [] answer = "error" ->
                         setStatus(updateDownloadEnabled(popup), "Download failed.", TRUE)
  /\ UNCHANGED <<storage, saves, events, exceptPopup>>

NextPopup ==
  \/ TabsQueried
  \/ LcscIdAnswered
  \/ PreviewsAnswered
  \/ SettingsLoaded
  \/ \E box \in OptionBoxes : ChangeOption(box)
  \/ ChangeIndividually
  \/ SettingsSaved
  \/ ClickDownload
  \/ \E i \in 1..MaxEvents : ExportLoadsSettings(i)
  \/ \E i \in 1..MaxEvents : ExportAnswered(i)

SpecPopup == InitPopup /\ [][NextPopup]_vars

\* ------------------------------------------------------------ properties of the popup
\* C20: while an EXPORT_PART message of the popup waits for its response the
\* download button is disabled, whatever the user does in between, and so
\* no two EXPORT_PART messages of one popup wait at the same time.
C20_ButtonDisabledWhileInFlight ==
  /\ requests # <<>> => popup.disabled
  /\ Len(requests) <= 1

\* The button is enabled only with a known part id and a checked option.
ButtonConsistent ==
  ~popup.disabled => (popup.currentLcscId # "" /\ hasSelection(popup))

\* The handlers that set the button from the popup state: the part-id
\* response, a change of an option checkbox, an export response.
ButtonHandler ==
  \/ LcscIdAnswered
  \/ \E box \in OptionBoxes : ChangeOption(box)
  \/ \E i \in 1..MaxEvents : ExportAnswered(i)

C24_WorkerUsesValueOfMessage ==
  \A i \in 1..Len(requests) :
    requests[i].settings # "pending" =>
      requests[i].settings =
        (IF requests[i].options.downloadIndividually THEN "true" ELSE "false")

\* ------------------------------------------------------------ the last step of computeArc
\* A call of computeArc that returned a sweep angle.
ArcReturned == fnPc = "returned" /\ fnName = "computeArc" /\ fnResult.angleExtent # NaN

\* C27 as stated: the returned extent lies in (-360, 360] and keeps the sign
\* of the adjusted extent, so it is non-negative when the sweep flag is set
\* and non-positive when it is unset.
C27_ExtentKeepsSign ==
  ArcReturned =>
    /\ fnResult.angleExtent > 0 - 360
    /\ fnResult.angleExtent <= 360
    /\ fnArgs[7] => fnResult.angleExtent >= 0
    /\ ~fnArgs[7] => fnResult.angleExtent <= 0

\* C27: the reduction to a magnitude below 360 reverses the sign of the
\* adjusted extent: the returned extent lies in (-360, 360), is
\* non-positive when the sweep flag is set, and when the sweep flag is unset
\* it is non-negative, except for the degenerate arc, whose placeholder 719
\* is still positive after the subtraction and comes back as -359.
C27_ExtentSignReversed ==
  ArcReturned =>
    /\ fnResult.angleExtent > 0 - 360
    /\ fnResult.angleExtent < 360
    /\ fnArgs[7] => fnResult.angleExtent <= 0
    /\ ~fnArgs[7] =>
         IF fnResult.degenerate THEN fnResult.angleExtent = 0 - 359
         ELSE fnResult.angleExtent >= 0

\* A proper arc drawn with the sweep flag set came back with a negative
\* extent.
C27_Witness ==
  /\ ArcReturned
  /\ ~fnResult.degenerate
  /\ fnArgs[7]
  /\ fnResult.angleExtent < 0

\* ------------------------------------------------------------ the hole-dependent parts of a pad
\* C28: for every exported pad the type is thru_hole if and only if a drill
\* clause is emitted, a thru_hole pad takes its layers from the
\* through-hole layer table, and an smd pad has no drill clause and takes
\* its layers from the surface layer table.
C28_HolePartsAgree ==
  FootprintExported =>
    \A i \in 1..Len(kiFootprint.pads) :
      LET pad == kiFootprint.pads[i]
          clause == PadClauses[i]
      IN /\ clause.type \in {"thru_hole", "smd"}
         /\ clause.type = "thru_hole" <=> clause.drill # NoDrill
         /\ clause.type = "thru_hole" =>
              clause.layers = OrEmpty(KI_PAD_LAYER_THT(pad.layerId))
         /\ clause.type = "smd" =>
              /\ clause.drill = NoDrill
              /\ clause.layers = OrEmpty(KI_PAD_LAYER(pad.layerId))

\* A pad with a hole on the all-copper layer was exported as thru_hole with
\* a drill clause and the through-hole layers.
C28_Witness ==
  /\ FootprintExported
  /\ \E i \in 1..Len(kiFootprint.pads) :
       /\ kiFootprint.pads[i].layerId = 11
       /\ PadClauses[i].type = "thru_hole"
       /\ PadClauses[i].drill.kind = "round"
       /\ PadClauses[i].layers = "*.Cu *.Mask"

\* ------------------------------------------------------------ the 3D model of a footprint
\* The file names of the .wrl files the 3D-model clauses of the exported
\* footprint of a call refer to, without their directory.
ReferencedWrlNames(call) ==
  LET clauses == SelectSeq(call.kicadFiles.footprint.content.output, IsModelClause)
  IN {clauses[i].file3d[3] \o clauses[i].file3d[4] : i \in 1..Len(clauses)}

\* The file names of the .wrl files a call saved, without their directory.
SavedWrlNames(call) ==
  {LET filename == call.files[i].filename
   IN filename[Len(filename) - 1] \o filename[Len(filename)] :
     i \in {j \in 1..Len(call.files) : call.files[j].kind = "wrl"}}

\* A call that exported a footprint and saved the converted mesh.
ExportedWithModel(c) ==
  /\ calls[c].kicadFiles # Null
  /\ calls[c].kicadFiles.footprint # Null
  /\ Saved(c, "wrl")

\* C29: when a footprint and its 3D model are exported together, the .wrl
\* file name the 3D-model clause of the footprint refers to is the file
\* name under which the service worker saves the converted mesh, for every
\* model name.
C29_FootprintRefersToSavedWrl ==
  \A c \in CallIds :
    ExportedWithModel(c) => ReferencedWrlNames(calls[c]) = SavedWrlNames(calls[c])

\* For a model whose title has only word characters, dots and hyphens, in a
\* package with one 3D record, the two names are the same.
PlainNameRefersToSavedWrl ==
  \A c \in CallIds :
    (ExportedWithModel(c) /\ calls[c].lcscId \in PartIds) =>
      ReferencedWrlNames(calls[c]) = SavedWrlNames(calls[c])

\* ------------------------------------------------------------ content script
\* Texts of the page are sequences of characters.
LowerLetters == <<"a", "b", "c", "d", "e", "f", "g", "h", "i", "j", "k", "l", "m", "n", "o", "p", "q", "r", "s", "t", "u", "v", "w", "x", "y", "z">>
UpperLetters == <<"A", "B", "C", "D", "E", "F", "G", "H", "I", "J", "K", "L", "M", "N", "O", "P", "Q", "R", "S", "T", "U", "V", "W", "X", "Y", "Z">>
Digits == {"0", "1", "2", "3", "4", "5", "6", "7", "8", "9"}
Whitespace == {" ", "\n", "\t"}

LetterIndex(letters, ch) == CHOOSE i \in 1..Len(letters) : letters[i] = ch
IsLetterOf(letters, ch) == \E i \in 1..Len(letters) : letters[i] = ch

\* String.prototype.toUpperCase and toLowerCase, one character at a time.
UpperChar(ch) ==
  IF IsLetterOf(LowerLetters, ch) THEN UpperLetters[LetterIndex(LowerLetters, ch)] ELSE ch
LowerChar(ch) ==
  IF IsLetterOf(UpperLetters, ch) THEN LowerLetters[LetterIndex(UpperLetters, ch)] ELSE ch

RECURSIVE trimStart(_)
trimStart(text) ==
  IF text # <<>> /\ Head(text) \in Whitespace THEN trimStart(Tail(text)) ELSE text

RECURSIVE trimEnd(_)
trimEnd(text) ==
  IF text # <<>> /\ text[Len(text)] \in Whitespace
    THEN trimEnd(SubSeq(text, 1, Len(text) - 1)) ELSE text

RECURSIVE collapseWhitespace(_)
\* text.replace(/\s+/g, " ")
collapseWhitespace(text) ==
  IF text = <<>> THEN <<>>
  ELSE IF Head(text) \in Whitespace THEN <<" ">> \o collapseWhitespace(trimStart(text))
  ELSE <<Head(text)>> \o collapseWhitespace(Tail(text))

\* normalizeLabel
normalizeLabel(text) == MapSeq(LowerChar, trimEnd(trimStart(collapseWhitespace(text))))

\* String.prototype.includes
Includes(text, part) ==
  \E i \in 1..(Len(text) - Len(part) + 1) : SubSeq(text, i, i + Len(part) - 1) = part

RECURSIVE DigitRun(_, _)
\* The number of digits of the text from position i on.
DigitRun(text, i) ==
  IF i <= Len(text) /\ text[i] \in Digits THEN 1 + DigitRun(text, i + 1) ELSE 0

RECURSIVE FirstMatch(_, _)
\* The position of the first match of /C\d{3,}/ from position i on, or 0.
FirstMatch(text, i) ==
  IF i > Len(text) THEN 0
  ELSE IF text[i] = "C" /\ DigitRun(text, i + 1) >= 3 THEN i
  ELSE FirstMatch(text, i + 1)

\* extractLcscId
extractLcscId(text) ==
  IF text = <<>> THEN Null
  ELSE LET upper == MapSeq(UpperChar, text)
           at == FirstMatch(upper, 1)
       IN IF at = 0 THEN Null ELSE SubSeq(upper, at, at + DigitRun(upper, at + 1))

\* An element of the page: its tag and its text.
Element(tag, text) == [tag |-> tag, text |-> text]

\* querySelector(tag) on the children of an element: the first one with the
\* tag, or Null.
querySelector(children, tag) ==
  IF \E i \in 1..Len(children) : children[i].tag = tag
    THEN children[CHOOSE i \in 1..Len(children) :
                    /\ children[i].tag = tag
                    /\ \A j \in 1..(i - 1) : children[j].tag # tag]
    ELSE Null

IsTd(element) == element.tag = "td"

LabelJlcpcb == <<"j", "l", "c", "p", "c", "b", " ", "p", "a", "r", "t", " ", "#">>
LabelLcsc == <<"l", "c", "s", "c", " ", "p", "a", "r", "t", " ", "#">>

RECURSIVE findInDefinitionLists(_)
\* findInDefinitionLists over the dl elements of the page in document order
findInDefinitionLists(lists) ==
  IF lists = <<>> THEN Null
  ELSE
    LET dt == querySelector(Head(lists), "dt")
        dd == querySelector(Head(lists), "dd")
    IN IF dt = Null \/ dd = Null THEN findInDefinitionLists(Tail(lists))
       ELSE LET label == normalizeLabel(dt.text)
                lcscId == IF Includes(label, LabelJlcpcb) \/ Includes(label, LabelLcsc)
                            THEN extractLcscId(dd.text) ELSE Null
            IN IF lcscId # Null THEN lcscId ELSE findInDefinitionLists(Tail(lists))

RECURSIVE findInTables(_)
\* findInTables over the rows of the product table in document order
findInTables(rows) ==
  IF rows = <<>> THEN Null
  ELSE
    LET cells == SelectSeq(Head(rows), IsTd)
    IN IF Len(cells) < 2 THEN findInTables(Tail(rows))
       ELSE LET label == normalizeLabel(cells[1].text)
                lcscId == IF Includes(label, LabelLcsc)
                            THEN extractLcscId(cells[2].text) ELSE Null
            IN IF lcscId # Null THEN lcscId ELSE findInTables(Tail(rows))

RECURSIVE textContent(_)
\* The text of the children of an element in document order.
textContent(children) ==
  IF children = <<>> THEN <<>>
  ELSE Head(children).text \o textContent(Tail(children))

RECURSIVE textOfAll(_)
\* The text of a list of elements in document order.
textOfAll(elements) ==
  IF elements = <<>> THEN <<>>
  ELSE textContent(Head(elements)) \o textOfAll(Tail(elements))

\* document.body.textContent: the text before the lists, the lists, the
\* product table.
bodyText(document) ==
  document.lead \o textOfAll(document.lists) \o textOfAll(document.rows)

\* A variant that scans the whole page first.
findLcscId_PageFirst(document) ==
  LET inPage == extractLcscId(bodyText(document))
      inLists == findInDefinitionLists(document.lists)
  IN IF inPage # Null THEN inPage
     ELSE IF inLists # Null THEN inLists
     ELSE findInTables(document.rows)

\* findLcscId
findLcscId(document) ==
  LET inLists == findInDefinitionLists(document.lists)
      inTables == findInTables(document.rows)
  IN IF inLists # Null THEN inLists
     ELSE IF inTables # Null THEN inTables
     ELSE extractLcscId(bodyText(document))

\* The definition lists of the pages: a part number under either label, a
\* label written with other case and spacing, a labelled entry without an
\* id, another label, a list without a dt, and a list whose second entry is
\* the part number.
DefinitionLists ==
  {<<Element("dt", <<"L", "C", "S", "C", " ", "P", "a", "r", "t", " ", "#">>), Element("dd", <<"C", "1", "2", "3", "4", "5">>)>>,
   <<Element("dt", <<" ", "J", "L", "C", "P", "C", "B", "\n", " ", "P", "a", "r", "t", " ", " ", "#", " ">>), Element("dd", <<" ", "c", "2", "0", "4", "0", " ">>)>>,
   <<Element("dt", <<"L", "C", "S", "C", " ", "P", "a", "r", "t", " ", "#">>), Element("dd", <<"N", "/", "A">>)>>,
   <<Element("dt", <<"M", "f", "r", ".", " ", "P", "a", "r", "t", " ", "#">>), Element("dd", <<"B", "C", "5", "4", "7", "B">>)>>,
   <<Element("dd", <<"C", "9", "9", "9", "9">>)>>,
   <<Element("dt", <<"P", "a", "c", "k", "a", "g", "e">>), Element("dd", <<"S", "O", "T", "-", "2", "3">>),
     Element("dt", <<"L", "C", "S", "C", " ", "P", "a", "r", "t", " ", "#">>), Element("dd", <<"C", "1", "2", "3", "4", "5">>)>>}

\* The rows of the product table: a labelled row, a row whose label is a
\* header cell, a row under the JLCPCB label, a labelled row without an id.
TableRows ==
  {<<Element("td", <<"L", "C", "S", "C", " ", "P", "a", "r", "t", " ", "#">>), Element("td", <<"C", "8", "7", "3", "4">>)>>,
   <<Element("th", <<"L", "C", "S", "C", " ", "P", "a", "r", "t", " ", "#">>), Element("td", <<"C", "8", "7", "3", "4">>)>>,
   <<Element("td", <<"J", "L", "C", "P", "C", "B", " ", "P", "a", "r", "t", " ", "#">>), Element("td", <<"C", "7", "7", "7", "7">>)>>,
   <<Element("td", <<"L", "C", "S", "C", " ", "P", "a", "r", "t", " ", "#">>), Element("td", <<"T", "B", "D">>)>>}

\* The text before the lists: none, a C with two digits, an id in lower case
\* inside a word.
LeadTexts == {<<>>, <<"C", "1", "2", " ">>, <<"a", "b", "c", "1", "2", "3", "4", "x", " ">>}

\* How many definition lists and how many table rows a page has.
ListCounts == {0, 1, 2}
RowCounts == {0, 1}

Pages ==
  [lead : LeadTexts,
   lists : UNION {[1..k -> DefinitionLists] : k \in ListCounts},
   rows : UNION {[1..k -> TableRows] : k \in RowCounts}]

\* What findLcscId returns in each page: whether it is an id, and the id.
Searches ==
  {[document |-> document,
    found |-> findLcscId(document) # Null,
    text |-> IF findLcscId(document) # Null THEN findLcscId(document) ELSE <<>>] :
     document \in Pages}

LcscIdOf(document) ==
  LET search == CHOOSE search \in Searches : search.document = document
  IN IF search.found THEN search.text ELSE Null

TabMessageTypes == {"GET_LCSC_ID", "EXPORT_PART"}

InitContent ==
  /\ CadIdle
  /\ WrlIdle
  /\ FnIdle
  /\ WorkerIdle
  /\ PopupIdle
  /\ page \in Pages
  /\ tabMessages = [m \in TabMessageIds |-> UnsentMessage]

\* The popup or the service worker sends a message to the tab.
SendToTab(m) ==
  /\ tabMessages[m].state = "unsent"
  /\ \E type \in TabMessageTypes :
       tabMessages' = [tabMessages EXCEPT ![m] = [@ EXCEPT !.state = "sent", !.type = type]]
  /\ UNCHANGED <<page, exceptContent>>

\* The onMessage listener of the content script, from its first line to its
\* return.
OnTabMessage(m) ==
  /\ tabMessages[m].state = "sent"
  /\ tabMessages' =
       [tabMessages EXCEPT ![m] =
          IF @.type # "GET_LCSC_ID"
            THEN [@ EXCEPT !.state = "handled", !.returned = FALSE]
            ELSE [@ EXCEPT !.state = "handled", !.returned = TRUE,
                           !.response = [lcscId |-> LcscIdOf(page)],
                           !.responses = @ + 1]]
  /\ UNCHANGED <<page, exceptContent>>

NextContent ==
  \/ \E m \in TabMessageIds : SendToTab(m)
  \/ \E m \in TabMessageIds : OnTabMessage(m)

SpecContent == InitContent /\ [][NextContent]_vars

\* The content script in a tab where every message that was sent is
\* delivered: the listener then runs to its return in one task.
SpecContentDelivers == SpecContent /\ \A m \in TabMessageIds : WF_vars(OnTabMessage(m))

\* ------------------------------------------------------------ properties of the content script
\* A part number: an upper-case C followed by three digits or more.
IsLcscId(id) ==
  /\ id # Null
  /\ Len(id) >= 4
  /\ id[1] = "C"
  /\ \A i \in 2..Len(id) : id[i] \in Digits

\* The definition lists whose first dt is the part-number label and whose
\* first dd holds an id, and the table rows with two td cells or more whose
\* first is the LCSC label and whose second holds an id.
LabelledLists ==
  {i \in 1..Len(page.lists) :
     LET dt == querySelector(page.lists[i], "dt")
         dd == querySelector(page.lists[i], "dd")
     IN /\ dt # Null
        /\ dd # Null
        /\ \/ Includes(normalizeLabel(dt.text), LabelJlcpcb)
           \/ Includes(normalizeLabel(dt.text), LabelLcsc)
        /\ extractLcscId(dd.text) # Null}

LabelledRows ==
  {i \in 1..Len(page.rows) :
     LET cells == SelectSeq(page.rows[i], IsTd)
     IN /\ Len(cells) >= 2
        /\ Includes(normalizeLabel(cells[1].text), LabelLcsc)
        /\ extractLcscId(cells[2].text) # Null}

First(S) == CHOOSE i \in S : \A j \in S : i <= j

\* The id the search order asks for.
IdInOrder ==
  IF LabelledLists # {}
    THEN extractLcscId(querySelector(page.lists[First(LabelledLists)], "dd").text)
  ELSE IF LabelledRows # {}
    THEN extractLcscId(SelectSeq(page.rows[First(LabelledRows)], IsTd)[2].text)
  ELSE extractLcscId(bodyText(page))

\* Every handled GET_LCSC_ID message has one response {lcscId}, with the id
\* of the search order, which is null or a part number.
AnsweredInOrder ==
  \A m \in TabMessageIds :
    (tabMessages[m].state = "handled" /\ tabMessages[m].type = "GET_LCSC_ID") =>
      /\ tabMessages[m].responses = 1
      /\ tabMessages[m].returned = TRUE
      /\ tabMessages[m].response.lcscId = IdInOrder
      /\ tabMessages[m].response.lcscId = Null \/ IsLcscId(tabMessages[m].response.lcscId)

====
